---- MODULE Spec2Model ----
(***************************************************************************)
(* SevaSaathi eligibility matching engine (services/scheme_matcher.py).    *)
(*                                                                         *)
(* Text is modelled as a sequence of one-character strings so that the    *)
(* substring tests, case conversions and slicing of the Python code are   *)
(* computed, not assumed.  A Python value is a record [t, v]: t is the    *)
(* Python type ("str", "int", "bool", "none", "list", "dict") and v the   *)
(* payload (characters, integer, boolean, 0, sequence, function).         *)
(***************************************************************************)
EXTENDS Integers, Sequences, FiniteSets, TLC

(***************************************************************************)
(* Characters and str methods                                              *)
(***************************************************************************)
UpperChars == <<"A", "B", "C", "D", "E", "F", "G", "H", "I", "J", "K", "L", "M", "N", "O", "P", "Q", "R", "S", "T", "U", "V", "W", "X", "Y", "Z">>

LowerChars == <<"a", "b", "c", "d", "e", "f", "g", "h", "i", "j", "k", "l", "m", "n", "o", "p", "q", "r", "s", "t", "u", "v", "w", "x", "y", "z">>

\* index of character c in alphabet a, 0 when c is not in it
alpha_index(c, a) ==
    LET hits == {i \in 1..Len(a) : a[i] = c}
    IN  IF hits = {} THEN 0 ELSE CHOOSE i \in hits : TRUE

ToLower == [c \in {UpperChars[i] : i \in 1..26} |-> LowerChars[alpha_index(c, UpperChars)]]

ToUpper == [c \in {LowerChars[i] : i \in 1..26} |-> UpperChars[alpha_index(c, LowerChars)]]

\* str.lower() and str.upper(), character by character
lower_char(c) == IF c \in DOMAIN ToLower THEN ToLower[c] ELSE c

upper_char(c) == IF c \in DOMAIN ToUpper THEN ToUpper[c] ELSE c

lower(s) == [i \in 1..Len(s) |-> lower_char(s[i])]

upper(s) == [i \in 1..Len(s) |-> upper_char(s[i])]

\* Python's `sub in s` on two strings
contains(sub, s) ==
    \E i \in 0..(Len(s) - Len(sub)) : \A j \in 1..Len(sub) : s[i + j] = sub[j]

\* the characters of s as one string value
RECURSIVE text(_)
text(s) == IF s = <<>> THEN "" ELSE Head(s) \o text(Tail(s))

\* sep.join(parts) on a sequence of strings
RECURSIVE join(_, _)
join(sep, parts) ==
    IF parts = <<>> THEN ""
    ELSE IF Len(parts) = 1 THEN parts[1]
    ELSE parts[1] \o sep \o join(sep, Tail(parts))

(***************************************************************************)
(* Python values                                                           *)
(***************************************************************************)
Str(cs) == [t |-> "str", v |-> cs]

IntV(n) == [t |-> "int", v |-> n]

Bool(b) == [t |-> "bool", v |-> b]

None == [t |-> "none", v |-> 0]

Dict(f) == [t |-> "dict", v |-> f]

List(s) == [t |-> "list", v |-> s]

EmptyStr == Str(<<>>)

\* bool(x): None, 0, False, "", [] and {} are falsy
truthy(x) ==
    CASE x.t = "none" -> FALSE
      [] x.t = "bool" -> x.v
      [] x.t = "int"  -> x.v # 0
      [] x.t = "str"  -> x.v # <<>>
      [] x.t = "list" -> x.v # <<>>
      [] x.t = "dict" -> DOMAIN x.v # {}

\* the int a number stands for; bool is a subclass of int in Python
num(x) == IF x.t = "bool" THEN (IF x.v THEN 1 ELSE 0) ELSE x.v

\* isinstance(x, (int, float)); floats are outside the modelled values
is_number(x) == x.t \in {"int", "bool"}

\* d.get(key, default) on a dict
get(d, key, default) == IF key \in DOMAIN d.v THEN d.v[key] ELSE default

(***************************************************************************)
(* config/settings.py                                                      *)
(***************************************************************************)
state_match == 30

primary_target_match == 25

\* category_match with the value of state_match
category_match_state_match == 30

category_match == 20

age_appropriateness == 15

additional_criteria == 10

\* the threshold read from the state_match entry of MATCHING_SCORES
simple_matching_threshold_state_match == 30

\* SchemeMatcher.simple_matching_threshold; settings.py names the value
\* FALLBACK_SCORE_THRESHOLD
simple_matching_threshold == 60

(***************************************************************************)
(* Keywords of the rule-based matcher                                      *)
(***************************************************************************)
kw_all_india == <<"a", "l", "l", " ", "i", "n", "d", "i", "a">>

kw_all_states == <<"a", "l", "l", " ", "s", "t", "a", "t", "e", "s">>

kw_disabled == <<"d", "i", "s", "a", "b", "l", "e", "d">>

kw_pwd == <<"p", "w", "d">>

kw_disability == <<"d", "i", "s", "a", "b", "i", "l", "i", "t", "y">>

kw_handicapped == <<"h", "a", "n", "d", "i", "c", "a", "p", "p", "e", "d">>

kw_farmer == <<"f", "a", "r", "m", "e", "r">>

kw_agriculture == <<"a", "g", "r", "i", "c", "u", "l", "t", "u", "r", "e">>

kw_student == <<"s", "t", "u", "d", "e", "n", "t">>

kw_education == <<"e", "d", "u", "c", "a", "t", "i", "o", "n">>

kw_unemployed == <<"u", "n", "e", "m", "p", "l", "o", "y", "e", "d">>

kw_employment == <<"e", "m", "p", "l", "o", "y", "m", "e", "n", "t">>

kw_job == <<"j", "o", "b">>

kw_female == <<"f", "e", "m", "a", "l", "e">>

kw_women == <<"w", "o", "m", "e", "n">>

kw_girl == <<"g", "i", "r", "l">>

kw_mahila == <<"m", "a", "h", "i", "l", "a">>

kw_senior == <<"s", "e", "n", "i", "o", "r">>

kw_elderly == <<"e", "l", "d", "e", "r", "l", "y">>

kw_SC == <<"S", "C">>

kw_ST == <<"S", "T">>

kw_OBC == <<"O", "B", "C">>

kw_MINORITY == <<"M", "I", "N", "O", "R", "I", "T", "Y">>

kw_SCHEDULED_CASTE == <<"S", "C", "H", "E", "D", "U", "L", "E", "D", " ", "C", "A", "S", "T", "E">>

kw_SCHEDULED_TRIBE == <<"S", "C", "H", "E", "D", "U", "L", "E", "D", " ", "T", "R", "I", "B", "E">>

kw_error == <<"e", "r", "r", "o", "r">>

kw_timeout == <<"t", "i", "m", "e", "o", "u", "t">>

kw_connection_error == <<"c", "o", "n", "n", "e", "c", "t", "i", "o", "n", " ", "e", "r", "r", "o", "r">>

kw_api_error == <<"a", "p", "i", " ", "e", "r", "r", "o", "r">>

(***************************************************************************)
(* Rule-based matcher                                                      *)
(***************************************************************************)
\* x.lower() / x.upper() raise AttributeError unless x is a str
has_str_methods(x) == x.t = "str"

\* _is_state_match that takes an unknown state for a mismatch
_is_state_match_known_only(user_state, scheme_state) ==
    IF user_state = <<>> THEN FALSE
    ELSE \/ scheme_state = kw_all_india
         \/ contains(kw_all_states, scheme_state)
         \/ contains(user_state, scheme_state)

_is_state_match(user_state, scheme_state) ==
    IF user_state = <<>> THEN TRUE
    ELSE \/ scheme_state = kw_all_india
         \/ contains(kw_all_states, scheme_state)
         \/ contains(user_state, scheme_state)

_is_disability_match(user_profile, scheme) ==
    IF ~truthy(get(user_profile, "disability", None)) THEN FALSE
    ELSE LET tags == lower(get(scheme, "tags", EmptyStr).v)
             eligibility == lower(get(scheme, "eligibility_criteria", EmptyStr).v)
             disability_keywords == {kw_disabled, kw_pwd, kw_disability, kw_handicapped}
         IN  \/ \E word \in disability_keywords : contains(word, tags)
             \/ \E word \in disability_keywords : contains(word, eligibility)

\* _get_occupation_match that pays primary_target_match on every branch
_get_occupation_match_flat(user_profile, scheme) ==
    LET occupation == lower(get(user_profile, "occupation", EmptyStr).v)
        tags == lower(get(scheme, "tags", EmptyStr).v)
    IN  IF occupation = <<>> THEN <<0, "">>
        ELSE IF occupation = kw_farmer /\ (contains(kw_farmer, tags) \/ contains(kw_agriculture, tags))
             THEN <<primary_target_match, "Farmer/Agriculture scheme">>
        ELSE IF occupation = kw_student /\ (contains(kw_student, tags) \/ contains(kw_education, tags))
             THEN <<primary_target_match, "Student/Education scheme">>
        ELSE IF occupation = kw_unemployed /\ (contains(kw_employment, tags) \/ contains(kw_job, tags))
             THEN <<primary_target_match, "Employment scheme">>
        ELSE <<0, "">>

\* <<points, explanation>>
_get_occupation_match(user_profile, scheme) ==
    LET occupation == lower(get(user_profile, "occupation", EmptyStr).v)
        tags == lower(get(scheme, "tags", EmptyStr).v)
    IN  IF occupation = <<>> THEN <<0, "">>
        ELSE IF occupation = kw_farmer /\ (contains(kw_farmer, tags) \/ contains(kw_agriculture, tags))
             THEN <<primary_target_match, "Farmer/Agriculture scheme">>
        ELSE IF occupation = kw_student /\ (contains(kw_student, tags) \/ contains(kw_education, tags))
             THEN <<primary_target_match, "Student/Education scheme">>
        ELSE IF occupation = kw_unemployed /\ (contains(kw_employment, tags) \/ contains(kw_job, tags))
             THEN <<additional_criteria, "Employment scheme">>
        ELSE <<0, "">>

_is_gender_match(user_profile, scheme) ==
    LET gender == lower(get(user_profile, "gender", EmptyStr).v)
        tags == lower(get(scheme, "tags", EmptyStr).v)
    IN  IF gender # kw_female THEN FALSE
        ELSE \E word \in {kw_women, kw_girl, kw_female, kw_mahila} : contains(word, tags)

_is_age_appropriate(user_profile, scheme) ==
    LET age == get(user_profile, "age", None)
        tags == lower(get(scheme, "tags", EmptyStr).v)
    IN  IF ~truthy(age) \/ ~is_number(age) THEN FALSE
        ELSE IF num(age) <= 25 /\ (contains(kw_student, tags) \/ contains(kw_education, tags)) THEN TRUE
        ELSE IF num(age) >= 60 /\ (contains(kw_senior, tags) \/ contains(kw_elderly, tags)) THEN TRUE
        ELSE FALSE

\* _is_category_match that looks at the tags only
_is_category_match_tags_only(user_profile, scheme) ==
    LET category == upper(get(user_profile, "category", EmptyStr).v)
        tags == upper(get(scheme, "tags", EmptyStr).v)
        category_keywords == {kw_SC, kw_ST, kw_OBC, kw_MINORITY, kw_SCHEDULED_CASTE, kw_SCHEDULED_TRIBE}
    IN  IF category \notin {kw_SC, kw_ST, kw_OBC} THEN FALSE
        ELSE \E keyword \in category_keywords : contains(keyword, tags)

_is_category_match(user_profile, scheme) ==
    LET category == upper(get(user_profile, "category", EmptyStr).v)
        tags == upper(get(scheme, "tags", EmptyStr).v)
        eligibility == upper(get(scheme, "eligibility_criteria", EmptyStr).v)
        category_keywords == {kw_SC, kw_ST, kw_OBC, kw_MINORITY, kw_SCHEDULED_CASTE, kw_SCHEDULED_TRIBE}
    IN  IF category \notin {kw_SC, kw_ST, kw_OBC} THEN FALSE
        ELSE \/ \E keyword \in category_keywords : contains(keyword, tags)
             \/ \E keyword \in category_keywords : contains(keyword, eligibility)

\* the fields on which _calculate_simple_score always calls a str method; a
\* call on a value that is not a str raises AttributeError, and so does
\* user_profile.get when the profile is None.  (tags and eligibility_criteria
\* of a scheme record are text in every catalog considered here.)
score_raises(user_profile, scheme) ==
    \/ user_profile.t # "dict"
    \/ \E key \in {"state", "occupation", "gender", "category"} :
          ~has_str_methods(get(user_profile, key, EmptyStr))
    \/ ~has_str_methods(get(scheme, "state", EmptyStr))

\* [exc, score, explanations]: exc is "" when the call returns
_calculate_simple_score(user_profile, scheme) ==
    IF score_raises(user_profile, scheme)
    THEN [exc |-> "AttributeError", score |-> 0, explanations |-> <<>>]
    ELSE
    LET user_state == lower(get(user_profile, "state", EmptyStr).v)
        scheme_state == lower(get(scheme, "state", EmptyStr).v)
        st == _is_state_match(user_state, scheme_state)
        dis == _is_disability_match(user_profile, scheme)
        occ == _get_occupation_match(user_profile, scheme)
        gen == _is_gender_match(user_profile, scheme)
        age == _is_age_appropriate(user_profile, scheme)
        cat == _is_category_match(user_profile, scheme)
    IN  [exc |-> "",
         score |-> (IF st THEN state_match ELSE 0)
                   + (IF dis THEN primary_target_match ELSE 0)
                   + occ[1]
                   + (IF gen THEN category_match ELSE 0)
                   + (IF age THEN age_appropriateness ELSE 0)
                   + (IF cat THEN category_match ELSE 0),
         explanations |->
                   (IF st /\ user_state # <<>> THEN <<"State eligibility matched">> ELSE <<>>)
                \o (IF dis THEN <<"Disability benefits available">> ELSE <<>>)
                \o (IF occ[2] # "" THEN <<occ[2]>> ELSE <<>>)
                \o (IF gen THEN <<"Women/Girl focused scheme">> ELSE <<>>)
                \o (IF age THEN <<"Age appropriate for education scheme">> ELSE <<>>)
                \o (IF cat THEN <<"Social category benefits">> ELSE <<>>)]

(***************************************************************************)
(* json.loads on the JSON texts the model serves: objects, arrays, strings *)
(* without escapes, integers, true, false, null.                           *)
(***************************************************************************)
Whitespace == {" ", "\n", "\t", "\r"}

Digits == <<"0", "1", "2", "3", "4", "5", "6", "7", "8", "9">>

is_digit(c) == alpha_index(c, Digits) > 0

Quote == "\""

\* stands for the backquote character, which a TLA+ string cannot hold
Backtick == "^"

\* s.startswith(prefix), and the same test at position i of s
starts_at(prefix, s, i) ==
    /\ i + Len(prefix) - 1 <= Len(s)
    /\ \A j \in 1..Len(prefix) : s[i + j - 1] = prefix[j]

startswith(prefix, s) == starts_at(prefix, s, 1)

\* s[start:-3] with a 0-based start
slice_to_minus3(s, start) ==
    IF start + 1 <= Len(s) - 3 THEN SubSeq(s, start + 1, Len(s) - 3) ELSE <<>>

\* s.strip()
strip(s) ==
    LET keep == {i \in 1..Len(s) : s[i] \notin Whitespace}
    IN  IF keep = {} THEN <<>>
        ELSE SubSeq(s, CHOOSE i \in keep : \A j \in keep : i <= j,
                       CHOOSE i \in keep : \A j \in keep : j <= i)

\* first position from i on that holds no whitespace (Len(s) + 1 at the end)
skip_ws(s, i) ==
    CHOOSE j \in i..(Len(s) + 1) :
        /\ j = Len(s) + 1 \/ s[j] \notin Whitespace
        /\ \A k \in i..(j - 1) : s[k] \in Whitespace

ParseFail == [ok |-> FALSE, val |-> None, pos |-> 0]

Parsed(val, pos) == [ok |-> TRUE, val |-> val, pos |-> pos]

\* value of the digits s[i..j]
RECURSIVE digits_value(_, _, _)
digits_value(s, i, j) ==
    IF j < i THEN 0 ELSE 10 * digits_value(s, i, j - 1) + (alpha_index(s[j], Digits) - 1)

parse_string(s, i) ==
    LET closing == {j \in (i + 1)..Len(s) : s[j] = Quote}
    IN  IF closing = {} THEN ParseFail
        ELSE LET j == CHOOSE k \in closing : \A l \in closing : k <= l
                 body == SubSeq(s, i + 1, j - 1)
             IN  IF \E k \in 1..Len(body) : body[k] \in {"\\", "\n", "\t", "\r"}
                 THEN ParseFail
                 ELSE Parsed(Str(body), j + 1)

parse_int(s, i) ==
    LET neg == s[i] = "-"
        d0 == IF neg THEN i + 1 ELSE i
    IN  IF d0 > Len(s) \/ ~is_digit(s[d0]) THEN ParseFail
        ELSE LET stop == CHOOSE j \in d0..Len(s) :
                             /\ \A k \in d0..j : is_digit(s[k])
                             /\ j = Len(s) \/ ~is_digit(s[j + 1])
                 last == IF s[d0] = "0" THEN d0 ELSE stop
                 n == digits_value(s, d0, last)
             IN  Parsed(IntV(IF neg THEN 0 - n ELSE n), last + 1)

RECURSIVE parse_value(_, _), parse_elements(_, _, _), parse_members(_, _, _)
parse_value(s, i) ==
    IF i > Len(s) THEN ParseFail
    ELSE IF s[i] = Quote THEN parse_string(s, i)
    ELSE IF s[i] = "-" \/ is_digit(s[i]) THEN parse_int(s, i)
    ELSE IF starts_at(<<"t", "r", "u", "e">>, s, i) THEN Parsed(Bool(TRUE), i + 4)
    ELSE IF starts_at(<<"f", "a", "l", "s", "e">>, s, i) THEN Parsed(Bool(FALSE), i + 5)
    ELSE IF starts_at(<<"n", "u", "l", "l">>, s, i) THEN Parsed(None, i + 4)
    ELSE IF s[i] = "["
         THEN LET j == skip_ws(s, i + 1)
              IN  IF j <= Len(s) /\ s[j] = "]" THEN Parsed(List(<<>>), j + 1)
                  ELSE parse_elements(s, j, <<>>)
    ELSE IF s[i] = "{"
         THEN LET j == skip_ws(s, i + 1)
              IN  IF j <= Len(s) /\ s[j] = "}" THEN Parsed(Dict(<<>>), j + 1)
                  ELSE parse_members(s, j, <<>>)
    ELSE ParseFail

\* the elements of an array from position i on, acc holds those read so far
parse_elements(s, i, acc) ==
    LET r == parse_value(s, i)
    IN  IF ~r.ok THEN ParseFail
        ELSE LET j == skip_ws(s, r.pos)
             IN  IF j > Len(s) THEN ParseFail
                 ELSE IF s[j] = "," THEN parse_elements(s, skip_ws(s, j + 1), Append(acc, r.val))
                 ELSE IF s[j] = "]" THEN Parsed(List(Append(acc, r.val)), j + 1)
                 ELSE ParseFail

\* the members of an object from position i on; a repeated key keeps the
\* last value
parse_members(s, i, acc) ==
    IF i > Len(s) \/ s[i] # Quote THEN ParseFail
    ELSE LET k == parse_string(s, i)
         IN  IF ~k.ok THEN ParseFail
             ELSE LET c == skip_ws(s, k.pos)
                  IN  IF c > Len(s) \/ s[c] # ":" THEN ParseFail
                      ELSE LET r == parse_value(s, skip_ws(s, c + 1))
                           IN  IF ~r.ok THEN ParseFail
                               ELSE LET j == skip_ws(s, r.pos)
                                        acc2 == (text(k.val.v) :> r.val) @@ acc
                                    IN  IF j > Len(s) THEN ParseFail
                                        ELSE IF s[j] = "," THEN parse_members(s, skip_ws(s, j + 1), acc2)
                                        ELSE IF s[j] = "}" THEN Parsed(Dict(acc2), j + 1)
                                        ELSE ParseFail

\* [ok, val]: ok is FALSE where json.loads raises JSONDecodeError
json_loads(s) ==
    LET r == parse_value(s, skip_ws(s, 1))
    IN  IF r.ok /\ skip_ws(s, r.pos) = Len(s) + 1 THEN [ok |-> TRUE, val |-> r.val]
        ELSE [ok |-> FALSE, val |-> None]

\* response_text after the code-fence handling
clean_response(response) ==
    LET response_text == strip(response)
    IN  IF startswith(<<"j", "s", "o", "n">>, response_text)
        THEN strip(slice_to_minus3(response_text, 7))
        ELSE IF startswith(<<Backtick, Backtick, Backtick>>, response_text)
        THEN strip(slice_to_minus3(response_text, 3))
        ELSE response_text

\* _is_error_response without the lower() call
_is_error_response_cased(response) ==
    IF response = <<>> THEN TRUE
    ELSE \E indicator \in {kw_error, kw_timeout, kw_connection_error, kw_api_error} :
            contains(indicator, response)

_is_error_response(response) ==
    IF response = <<>> THEN TRUE
    ELSE LET error_indicators == {kw_error, kw_timeout, kw_connection_error, kw_api_error}
             lowered == lower(response)
         IN  \E indicator \in error_indicators : contains(indicator, lowered)

(***************************************************************************)
(* Inputs: profiles, scheme records, catalogs, service responses           *)
(***************************************************************************)
MaxCatalog == 2

MaxItems == 2

\* PMK
name_PMK == <<"P", "M", "K">>

\* MSS
name_MSS == <<"M", "S", "S">>

\* KCC
name_KCC == <<"K", "C", "C">>

\* All India
txt_All_India == <<"A", "l", "l", " ", "I", "n", "d", "i", "a">>

\* Maharashtra
txt_Maharashtra == <<"M", "a", "h", "a", "r", "a", "s", "h", "t", "r", "a">>

\* Kerala
txt_Kerala == <<"K", "e", "r", "a", "l", "a">>

\* All States and UTs
txt_All_States_and_UTs == <<"A", "l", "l", " ", "S", "t", "a", "t", "e", "s", " ", "a", "n", "d", " ", "U", "T", "s">>

\* farmer, agriculture
tags_farmer == <<"f", "a", "r", "m", "e", "r", ",", " ", "a", "g", "r", "i", "c", "u", "l", "t", "u", "r", "e">>

\* student, women, disabled
tags_student == <<"s", "t", "u", "d", "e", "n", "t", ",", " ", "w", "o", "m", "e", "n", ",", " ", "d", "i", "s", "a", "b", "l", "e", "d">>

\* employment, women
tags_employment == <<"e", "m", "p", "l", "o", "y", "m", "e", "n", "t", ",", " ", "w", "o", "m", "e", "n">>

\* agriculture
tags_agriculture == <<"a", "g", "r", "i", "c", "u", "l", "t", "u", "r", "e">>

\* senior, elderly
tags_senior == <<"s", "e", "n", "i", "o", "r", ",", " ", "e", "l", "d", "e", "r", "l", "y">>

\* open to SC/ST
elig_sc_st == <<"o", "p", "e", "n", " ", "t", "o", " ", "S", "C", "/", "S", "T">>

\* PwD certificate
elig_pwd == <<"P", "w", "D", " ", "c", "e", "r", "t", "i", "f", "i", "c", "a", "t", "e">>

\* farmer
txt_farmer == <<"f", "a", "r", "m", "e", "r">>

\* Farmer
txt_Farmer == <<"F", "a", "r", "m", "e", "r">>

\* student
txt_student == <<"s", "t", "u", "d", "e", "n", "t">>

\* unemployed
txt_unemployed == <<"u", "n", "e", "m", "p", "l", "o", "y", "e", "d">>

\* female
txt_female == <<"f", "e", "m", "a", "l", "e">>

\* Male
txt_Male == <<"M", "a", "l", "e">>

\* SC
txt_SC == <<"S", "C">>

\* obc
txt_obc == <<"o", "b", "c">>

\* General
txt_General == <<"G", "e", "n", "e", "r", "a", "l">>

\* yes
txt_yes == <<"y", "e", "s">>

Scheme(name, state, tags, eligibility) ==
    Dict([scheme_name |-> Str(name), state |-> Str(state), tags |-> Str(tags),
          eligibility_criteria |-> Str(eligibility)])

scheme_PMK == Scheme(name_PMK, txt_All_India, tags_farmer, elig_sc_st)

scheme_MSS == Scheme(name_MSS, txt_Maharashtra, tags_student, <<>>)

scheme_KCC == Scheme(name_KCC, txt_Maharashtra, tags_agriculture, elig_sc_st)

Schemes == {scheme_PMK, scheme_KCC, scheme_MSS}

\* all sequences over S of length at most n
SeqUpTo(S, n) == UNION {[1..k -> S] : k \in 0..n}

\* a second record under the name PMK
scheme_PMK_Kerala == Scheme(name_PMK, txt_Kerala, tags_farmer, <<>>)

\* catalogs of a particular shape: two records under one name, in both orders
ShapedCatalogs == {<<scheme_PMK, scheme_PMK_Kerala>>, <<scheme_PMK_Kerala, scheme_PMK>>}

ShapedSchemes == {catalog[i] : i \in 1..2, catalog \in ShapedCatalogs}

\* MAX_SCHEMES_DISPLAY
MAX_SCHEMES_DISPLAY == 10

\* the decimal digit d as a character
digit_char(d) == Digits[d + 1]

\* the record named S01, S02, ...: open to farmers of every state, SC/ST
scheme_numbered(i) ==
    Scheme(<<"S", digit_char(i \div 10), digit_char(i % 10)>>, txt_All_India, tags_farmer, elig_sc_st)

\* a catalog of one record more than MAX_SCHEMES_DISPLAY, all names distinct
catalog_long == [i \in 1..(MAX_SCHEMES_DISPLAY + 1) |-> scheme_numbered(i)]

LongSchemes == {catalog_long[i] : i \in 1..Len(catalog_long)}

Catalogs == SeqUpTo(Schemes, MaxCatalog) \cup ShapedCatalogs \cup {catalog_long}

EmptyProfile == Dict(<<>>)

profile_farmer_sc ==
    Dict([state |-> Str(txt_Maharashtra), occupation |-> Str(txt_farmer), category |-> Str(txt_SC)])

profile_student ==
    Dict([state |-> Str(txt_Maharashtra), occupation |-> Str(txt_student), gender |-> Str(txt_female),
          age |-> IntV(20), disability |-> Str(txt_yes), category |-> Str(txt_SC)])

profile_student_kerala ==
    Dict([state |-> Str(txt_Kerala), occupation |-> Str(txt_student), gender |-> Str(txt_female),
          age |-> IntV(20)])

\* the profiles find_eligible_schemes is called with; None is an absent profile
EngineProfiles ==
    {None, EmptyProfile, profile_farmer_sc, profile_student, profile_student_kerala}

\* {"scheme_name": "PMK", "matching_score": 85, "reasons": ["State", "Farmer"]}
item_PMK_85 == <<"{", "\"", "s", "c", "h", "e", "m", "e", "_", "n", "a", "m", "e", "\"", ":", " ", "\"", "P", "M", "K", "\"", ",", " ", "\"", "m", "a", "t", "c", "h", "i", "n", "g", "_", "s", "c", "o", "r", "e", "\"", ":", " ", "8", "5", ",", " ", "\"", "r", "e", "a", "s", "o", "n", "s", "\"", ":", " ", "[", "\"", "S", "t", "a", "t", "e", "\"", ",", " ", "\"", "F", "a", "r", "m", "e", "r", "\"", "]", "}">>

\* {"scheme_name": "MSS", "matching_score": 85, "reasons": ["Student"]}
item_MSS_85 == <<"{", "\"", "s", "c", "h", "e", "m", "e", "_", "n", "a", "m", "e", "\"", ":", " ", "\"", "M", "S", "S", "\"", ",", " ", "\"", "m", "a", "t", "c", "h", "i", "n", "g", "_", "s", "c", "o", "r", "e", "\"", ":", " ", "8", "5", ",", " ", "\"", "r", "e", "a", "s", "o", "n", "s", "\"", ":", " ", "[", "\"", "S", "t", "u", "d", "e", "n", "t", "\"", "]", "}">>

\* {"scheme_name": "KCC", "matching_score": 120, "reasons": ["Farmer"]}
item_KCC_120 == <<"{", "\"", "s", "c", "h", "e", "m", "e", "_", "n", "a", "m", "e", "\"", ":", " ", "\"", "K", "C", "C", "\"", ",", " ", "\"", "m", "a", "t", "c", "h", "i", "n", "g", "_", "s", "c", "o", "r", "e", "\"", ":", " ", "1", "2", "0", ",", " ", "\"", "r", "e", "a", "s", "o", "n", "s", "\"", ":", " ", "[", "\"", "F", "a", "r", "m", "e", "r", "\"", "]", "}">>

\* {"scheme_name": "MSS", "matching_score": 90, "reasons": ["No Error"]}
item_MSS_90_Error == <<"{", "\"", "s", "c", "h", "e", "m", "e", "_", "n", "a", "m", "e", "\"", ":", " ", "\"", "M", "S", "S", "\"", ",", " ", "\"", "m", "a", "t", "c", "h", "i", "n", "g", "_", "s", "c", "o", "r", "e", "\"", ":", " ", "9", "0", ",", " ", "\"", "r", "e", "a", "s", "o", "n", "s", "\"", ":", " ", "[", "\"", "N", "o", " ", "E", "r", "r", "o", "r", "\"", "]", "}">>

\* {"scheme_name": "PMK", "matching_score": -5, "reasons": []}
item_PMK_minus5 == <<"{", "\"", "s", "c", "h", "e", "m", "e", "_", "n", "a", "m", "e", "\"", ":", " ", "\"", "P", "M", "K", "\"", ",", " ", "\"", "m", "a", "t", "c", "h", "i", "n", "g", "_", "s", "c", "o", "r", "e", "\"", ":", " ", "-", "5", ",", " ", "\"", "r", "e", "a", "s", "o", "n", "s", "\"", ":", " ", "[", "]", "}">>

\* {"scheme_name": "XYZ", "matching_score": 70, "reasons": ["x"]}
item_XYZ_70 == <<"{", "\"", "s", "c", "h", "e", "m", "e", "_", "n", "a", "m", "e", "\"", ":", " ", "\"", "X", "Y", "Z", "\"", ",", " ", "\"", "m", "a", "t", "c", "h", "i", "n", "g", "_", "s", "c", "o", "r", "e", "\"", ":", " ", "7", "0", ",", " ", "\"", "r", "e", "a", "s", "o", "n", "s", "\"", ":", " ", "[", "\"", "x", "\"", "]", "}">>

\* 
resp_empty == <<>>

\* Request timeout
resp_timeout == <<"R", "e", "q", "u", "e", "s", "t", " ", "t", "i", "m", "e", "o", "u", "t">>

\* Connection error
resp_connection_error == <<"C", "o", "n", "n", "e", "c", "t", "i", "o", "n", " ", "e", "r", "r", "o", "r">>

\* API Error: 500
resp_api_error == <<"A", "P", "I", " ", "E", "r", "r", "o", "r", ":", " ", "5", "0", "0">>

\* No candidates in response
resp_no_candidates == <<"N", "o", " ", "c", "a", "n", "d", "i", "d", "a", "t", "e", "s", " ", "i", "n", " ", "r", "e", "s", "p", "o", "n", "s", "e">>

\* Invalid JSON response
resp_invalid_json == <<"I", "n", "v", "a", "l", "i", "d", " ", "J", "S", "O", "N", " ", "r", "e", "s", "p", "o", "n", "s", "e">>

\* []
resp_empty_array == <<"[", "]">>

\* {"scheme_name": "PMK"}
resp_object == <<"{", "\"", "s", "c", "h", "e", "m", "e", "_", "n", "a", "m", "e", "\"", ":", " ", "\"", "P", "M", "K", "\"", "}">>

ItemTexts == {item_PMK_85, item_MSS_85, item_KCC_120, item_MSS_90_Error, item_PMK_minus5, item_XYZ_70}

RECURSIVE join_chars(_, _)
join_chars(sep, parts) ==
    IF parts = <<>> THEN <<>>
    ELSE IF Len(parts) = 1 THEN parts[1]
    ELSE parts[1] \o sep \o join_chars(sep, Tail(parts))

\* the text of a JSON array of the given item texts
array_text(items) == <<"[">> \o join_chars(<<",", " ">>, items) \o <<"]">>

\* [7, {"scheme_name": "PMK", "matching_score": 85, "reasons": ["State", "Farmer"]}]
resp_mixed == array_text(<<<<"7">>, item_PMK_85>>)

\* an array of two records, bare and inside the two kinds of code fence: the
\* fence line, a line break, the array, a line break, the closing fence
resp_unfenced == array_text(<<item_PMK_85, item_MSS_85>>)

resp_fenced ==
    <<Backtick, Backtick, Backtick, "\n">> \o resp_unfenced \o <<"\n", Backtick, Backtick, Backtick>>

resp_fenced_json ==
    <<Backtick, Backtick, Backtick, "j", "s", "o", "n", "\n">> \o resp_unfenced
        \o <<"\n", Backtick, Backtick, Backtick>>

\* {"scheme_name": "pmk", "matching_score": 70, "reasons": ["x"]}
item_pmk_70 == <<"{", "\"", "s", "c", "h", "e", "m", "e", "_", "n", "a", "m", "e", "\"", ":", " ", "\"", "p", "m", "k", "\"", ",", " ", "\"", "m", "a", "t", "c", "h", "i", "n", "g", "_", "s", "c", "o", "r", "e", "\"", ":", " ", "7", "0", ",", " ", "\"", "r", "e", "a", "s", "o", "n", "s", "\"", ":", " ", "[", "\"", "x", "\"", "]", "}">>

\* three records: a name in another case, a name of no scheme, a catalog name
resp_names == array_text(<<item_pmk_70, item_XYZ_70, item_PMK_85>>)

\* {"scheme_name": "PMK", "matching_score": 85}
item_PMK_no_reasons == <<"{", "\"", "s", "c", "h", "e", "m", "e", "_", "n", "a", "m", "e", "\"", ":", " ", "\"", "P", "M", "K", "\"", ",", " ", "\"", "m", "a", "t", "c", "h", "i", "n", "g", "_", "s", "c", "o", "r", "e", "\"", ":", " ", "8", "5", "}">>

\* one record without the key reasons
resp_no_reasons == array_text(<<item_PMK_no_reasons>>)

\* bodies of a particular shape
ShapedResponses == {resp_mixed, resp_fenced, resp_fenced_json, resp_names, resp_no_reasons}

\* what generate_content may hand back: the texts call_api returns on a
\* failed call, JSON arrays of at most MaxItems records, and the bodies above
Responses ==
    {resp_empty, resp_timeout, resp_connection_error, resp_api_error, resp_no_candidates,
     resp_invalid_json, resp_empty_array, resp_object}
    \cup {array_text(items) : items \in SeqUpTo(ItemTexts, MaxItems) \ {<<>>}}
    \cup ShapedResponses

\* a field left out of a profile
Absent == [t |-> "absent", v |-> 0]

StateValues == {Absent, EmptyStr, Str(txt_Maharashtra)}

DisabilityValues == {Absent, Str(txt_yes), Bool(FALSE)}

OccupationValues == {Absent, Str(txt_Farmer), Str(txt_student), Str(txt_unemployed)}

GenderValues == {Absent, Str(txt_female), Str(txt_Male)}

AgeValues == {Absent, IntV(0), IntV(25), IntV(26), IntV(60)}

CategoryValues == {Absent, Str(txt_SC), Str(txt_obc), Str(txt_General)}

\* the profiles _calculate_simple_score is called with: every combination of
\* the field values above, a field being left out where it is Absent
ScoreProfiles ==
    {Dict([k \in {f \in DOMAIN r : r[f] # Absent} |-> r[k]]) :
        r \in [state : StateValues, disability : DisabilityValues, occupation : OccupationValues,
               gender : GenderValues, age : AgeValues, category : CategoryValues]}

scheme_senior == Scheme(<<"S", "N", "R">>, txt_All_States_and_UTs, tags_senior, elig_pwd)

scheme_jobs == Scheme(<<"J", "O", "B">>, txt_Kerala, tags_employment, <<>>)

\* a record with a name only: state, tags and eligibility_criteria left out
scheme_bare == Dict([scheme_name |-> Str(<<"B", "A", "R">>)])

ScoreSchemes == {scheme_PMK, scheme_KCC, scheme_MSS, scheme_senior, scheme_jobs, scheme_bare}

\* the inputs of the _simple_scheme_matching calls
\* KSY
name_KSY == <<"K", "S", "Y">>

\* farmer, agriculture, employment
tags_farmer_employment == <<"f", "a", "r", "m", "e", "r", ",", " ", "a", "g", "r", "i", "c", "u", "l", "t", "u", "r", "e", ",", " ", "e", "m", "p", "l", "o", "y", "m", "e", "n", "t">>

profile_farmer == Dict([state |-> Str(txt_Maharashtra), occupation |-> Str(txt_farmer)])

\* a record without eligibility_criteria
scheme_KSY ==
    Dict([scheme_name |-> Str(name_KSY), state |-> Str(txt_Maharashtra),
          tags |-> Str(tags_farmer_employment)])

scheme_KSY_sc == Scheme(name_KSY, txt_Maharashtra, tags_farmer_employment, elig_sc_st)

RuleProfiles == {None, EmptyProfile, profile_farmer, profile_farmer_sc, profile_student}

RuleSchemes == {scheme_KSY, scheme_KSY_sc, scheme_MSS}

RuleCatalogs == SeqUpTo(RuleSchemes, MaxCatalog)

\* the profiles and scheme records the score is tabulated for
TabulatedProfiles == EngineProfiles \cup RuleProfiles

TabulatedSchemes == Schemes \cup RuleSchemes \cup ShapedSchemes \cup LongSchemes

(***************************************************************************)
(* The pure functions tabulated over the inputs above.  Each lookup is the *)
(* value the function returns on that argument; the matchers below are     *)
(* only ever called on these inputs.                                       *)
(***************************************************************************)
\* _calculate_simple_score on every profile and scheme record of the matchers
simple_scores ==
    [user_profile \in TabulatedProfiles, scheme \in TabulatedSchemes |->
        _calculate_simple_score(user_profile, scheme)]

\* score, explanations = self._calculate_simple_score(user_profile, scheme)
calculate_simple_score(user_profile, scheme) == simple_scores[user_profile, scheme]

\* json.loads of the cleaned text of every response of the service
loaded_responses == [response \in Responses |-> json_loads(clean_response(response))]

\* eligible_schemes_summary = json.loads(response_text), after the code-fence handling
loads_cleaned(response) == loaded_responses[response]

\* _is_error_response on every response of the service
error_responses == [response \in Responses |-> _is_error_response(response)]

\* if self._is_error_response(response)
is_error_response(response) == error_responses[response]

(***************************************************************************)
(* Rule-based matching over a catalog                                      *)
(***************************************************************************)
min(a, b) == IF a <= b THEN a ELSE b

\* insert_sorted that puts a result in front of the results of equal score
insert_sorted_before_ties(x, sorted_list) ==
    LET k == Cardinality({i \in 1..Len(sorted_list) :
                             sorted_list[i].matching_score > x.matching_score})
    IN  SubSeq(sorted_list, 1, k) \o <<x>> \o SubSeq(sorted_list, k + 1, Len(sorted_list))

\* sorted(results, key=lambda x: x['matching_score'], reverse=True): a stable
\* sort, so a result goes behind every result whose score is not smaller
insert_sorted(x, sorted_list) ==
    LET k == Cardinality({i \in 1..Len(sorted_list) :
                             sorted_list[i].matching_score >= x.matching_score})
    IN  SubSeq(sorted_list, 1, k) \o <<x>> \o SubSeq(sorted_list, k + 1, Len(sorted_list))

RECURSIVE sorted_by_score(_)
sorted_by_score(results) ==
    IF results = <<>> THEN <<>>
    ELSE insert_sorted(results[Len(results)], sorted_by_score(SubSeq(results, 1, Len(results) - 1)))

\* simple_result without the clamp
simple_result_unclamped(scheme, sc) ==
    [scheme_name |-> scheme.v["scheme_name"],
     matching_score |-> sc.score,
     eligibility_explanation |->
         IF sc.explanations # <<>> THEN join("; ", sc.explanations) ELSE "General eligibility match",
     scheme_details |-> scheme]

\* the MatchResult appended for a scheme that passed the threshold
simple_result(scheme, sc) ==
    [scheme_name |-> scheme.v["scheme_name"],
     matching_score |-> min(sc.score, 100),
     eligibility_explanation |->
         IF sc.explanations # <<>> THEN join("; ", sc.explanations) ELSE "General eligibility match",
     scheme_details |-> scheme]

\* simple_eligible with the threshold test written as > instead of >=
RECURSIVE simple_eligible_strict(_, _)
simple_eligible_strict(user_profile, schemes_data) ==
    IF schemes_data = <<>> THEN <<>>
    ELSE LET sc == calculate_simple_score(user_profile, Head(schemes_data))
         IN  (IF sc.score > simple_matching_threshold
              THEN <<simple_result(Head(schemes_data), sc)>> ELSE <<>>)
             \o simple_eligible_strict(user_profile, Tail(schemes_data))

\* the list eligible_schemes as the loop leaves it, before sorting
RECURSIVE simple_eligible(_, _)
simple_eligible(user_profile, schemes_data) ==
    IF schemes_data = <<>> THEN <<>>
    ELSE LET sc == calculate_simple_score(user_profile, Head(schemes_data))
         IN  (IF sc.score >= simple_matching_threshold
              THEN <<simple_result(Head(schemes_data), sc)>> ELSE <<>>)
             \o simple_eligible(user_profile, Tail(schemes_data))

\* scheme['scheme_name'] raises KeyError for a record without the key
simple_raises(user_profile, scheme) ==
    LET sc == calculate_simple_score(user_profile, scheme)
    IN  IF sc.exc # "" THEN sc.exc
        ELSE IF sc.score >= simple_matching_threshold /\ "scheme_name" \notin DOMAIN scheme.v
             THEN "KeyError"
        ELSE ""

\* [exc, val]: the list returned, or the exception the first failing scheme raises
_simple_scheme_matching(user_profile, schemes_data) ==
    LET failing == {i \in 1..Len(schemes_data) : simple_raises(user_profile, schemes_data[i]) # ""}
    IN  IF failing # {}
        THEN [exc |-> simple_raises(user_profile, schemes_data[CHOOSE i \in failing : \A j \in failing : i <= j]),
              val |-> <<>>]
        ELSE [exc |-> "", val |-> sorted_by_score(simple_eligible(user_profile, schemes_data))]

(***************************************************************************)
(* AI-assisted matcher                                                     *)
(***************************************************************************)
\* a == b on two Python values
py_eq(a, b) ==
    IF is_number(a) /\ is_number(b) THEN num(a) = num(b)
    ELSE a.t = b.t /\ a.v = b.v

\* the last record of schemes_data with that name, None when there is none
_find_scheme_by_name_last(scheme_name, schemes_data) ==
    LET hits == {i \in 1..Len(schemes_data) :
                    py_eq(get(schemes_data[i], "scheme_name", None), scheme_name)}
    IN  IF hits = {} THEN None
        ELSE schemes_data[CHOOSE i \in hits : \A j \in hits : j <= i]

\* the first record of schemes_data with that name, None when there is none
_find_scheme_by_name(scheme_name, schemes_data) ==
    LET hits == {i \in 1..Len(schemes_data) :
                    py_eq(get(schemes_data[i], "scheme_name", None), scheme_name)}
    IN  IF hits = {} THEN None
        ELSE schemes_data[CHOOSE i \in hits : \A j \in hits : i <= j]

\* whether "; ".join(reasons) returns: reasons is a str or a list of str
\* (a JSON object as reasons is outside the texts served here)
joinable(reasons) ==
    \/ reasons.t = "str"
    \/ reasons.t = "list" /\ \A i \in 1..Len(reasons.v) : reasons.v[i].t = "str"

\* "; ".join(reasons)
join_reasons(reasons) ==
    IF reasons.t = "str" THEN join("; ", reasons.v)
    ELSE join("; ", [i \in 1..Len(reasons.v) |-> text(reasons.v[i].v)])

default_reasons == List(<<Str(<<"G", "e", "n", "e", "r", "a", "l", " ", "m", "a", "t", "c", "h">>)>>)

\* what the loop body does with one element of the parsed array:
\* "skip" (not a record, or no catalog record of that name), "TypeError"
\* (min or join raises) or "append"
item_outcome(summary, full_schemes_data) ==
    IF summary.t # "dict" THEN "skip"
    ELSE IF ~truthy(_find_scheme_by_name(get(summary, "scheme_name", EmptyStr), full_schemes_data))
         THEN "skip"
    ELSE IF ~is_number(get(summary, "matching_score", IntV(50))) THEN "TypeError"
    ELSE IF ~joinable(get(summary, "reasons", default_reasons)) THEN "TypeError"
    ELSE "append"

ai_result(summary, full_schemes_data) ==
    LET scheme_name == get(summary, "scheme_name", EmptyStr)
    IN  [scheme_name |-> scheme_name,
         matching_score |-> min(num(get(summary, "matching_score", IntV(50))), 100),
         eligibility_explanation |-> join_reasons(get(summary, "reasons", default_reasons)),
         scheme_details |-> _find_scheme_by_name(scheme_name, full_schemes_data)]

RECURSIVE ai_append_all(_, _)
ai_append_all(summaries, full_schemes_data) ==
    IF summaries = <<>> THEN <<>>
    ELSE (IF item_outcome(Head(summaries), full_schemes_data) = "append"
          THEN <<ai_result(Head(summaries), full_schemes_data)>> ELSE <<>>)
         \o ai_append_all(Tail(summaries), full_schemes_data)

\* the list eligible_schemes as the loop leaves it, before sorting; empty
\* where the function returns [] early or from its except clause
ai_eligible(response, full_schemes_data) ==
    LET parsed == loads_cleaned(response)
    IN  IF ~parsed.ok THEN <<>>
        ELSE IF parsed.val.t # "list" THEN <<>>
        ELSE IF \E i \in 1..Len(parsed.val.v) :
                    item_outcome(parsed.val.v[i], full_schemes_data) = "TypeError"
             THEN <<>>
        ELSE ai_append_all(parsed.val.v, full_schemes_data)

_parse_matching_response(response, full_schemes_data) ==
    sorted_by_score(ai_eligible(response, full_schemes_data))

\* _ai_scheme_matching from the point where generate_content has returned
_ai_scheme_matching(response, full_schemes_data) ==
    IF is_error_response(response) THEN <<>>
    ELSE _parse_matching_response(response, full_schemes_data)

\* PAGE_CONFIG["max_schemes_to_process"]; settings.py names the value
\* MAX_SCHEMES_FOR_AI
max_schemes_to_process == 15

\* the catalog summary sent with the prompt: the first max_schemes records,
\* each cut down to the fields the service reasons about
get_schemes_summary(schemes_data, max_schemes) ==
    [i \in 1..min(Len(schemes_data), max_schemes) |->
        Dict([k \in DOMAIN schemes_data[i].v \ {"eligibility_criteria"} |-> schemes_data[i].v[k]])]

(***************************************************************************)
(* State                                                                   *)
(***************************************************************************)
VARIABLES
    pc,              \* "idle", "awaiting" (generate_content called), "returned"
    configured,      \* api_client.is_configured()
    arg_user_profile,\* user_profile and schemes_data of the current call
    arg_schemes_data,
    request,         \* the catalog summary sent with the prompt
    api_calls,       \* calls of generate_content made by the current call
    api_response,    \* the text generate_content returned
    ai_results,      \* what _ai_scheme_matching returned
    path,            \* "none", "rule", "ai" or "fallback"
    eligible_schemes,\* the list of the matcher that produced the result, before sorting
    result,          \* [exc, val] of the current find_eligible_schemes call
    arg_scheme,      \* the scheme argument of the last _calculate_simple_score call
    scored,          \* [exc, score, explanations] of that call
    previous,        \* the _simple_scheme_matching call before the latest one
    latest,          \* the latest _simple_scheme_matching call: arguments and outcome
    arg_current_profile, \* current_profile of the extract_user_profile call
    gemini_response, \* what model.generate_content did in that call
    extract_result,  \* [exc, val] of that call
    current_profile_after, \* the caller's current_profile once the call has returned
    load_previous,   \* the load_schemes_data call before the latest one
    load_latest,     \* the latest load_schemes_data call: loader, source and outcome
    ss_api_key,      \* st.session_state.api_key
    ss_schemes_data, \* st.session_state.schemes_data
    ss_user_profile, \* st.session_state.user_profile
    ss_chat_history, \* st.session_state.chat_history
    ss_last_eligible_schemes, \* st.session_state.last_eligible_schemes
    matched_profile  \* the user_profile of the latest find_eligible_schemes call of ui/pages.py

\* the variables of find_eligible_schemes and of _calculate_simple_score
engine_vars == <<pc, configured, arg_user_profile, arg_schemes_data, request, api_calls, api_response,
                 ai_results, path, eligible_schemes, result, arg_scheme, scored>>

\* the variables of the _simple_scheme_matching calls
rule_vars == <<previous, latest>>

\* the variables of extract_user_profile
extract_vars == <<arg_current_profile, gemini_response, extract_result, current_profile_after>>

\* the variables of the load_schemes_data calls
load_vars == <<load_previous, load_latest>>

\* the session state of the pages, and the profile of the latest matching call
session_vars == <<ss_api_key, ss_schemes_data, ss_user_profile, ss_chat_history,
                  ss_last_eligible_schemes, matched_profile>>

vars == <<engine_vars, rule_vars, extract_vars, load_vars, session_vars>>

\* no call made yet
NoCall == [made |-> FALSE]

\* model.generate_content not called yet
NoResponse == [kind |-> "none"]

NoResult == [exc |-> "", val |-> <<>>]

NoScore == [exc |-> "", score |-> 0, explanations |-> <<>>]

Init ==
    /\ pc = "idle"
    /\ configured \in BOOLEAN
    /\ arg_user_profile = None
    /\ arg_schemes_data = <<>>
    /\ request = <<>>
    /\ api_calls = 0
    /\ api_response = <<>>
    /\ ai_results = <<>>
    /\ path = "none"
    /\ eligible_schemes = <<>>
    /\ result = NoResult
    /\ arg_scheme = None
    /\ scored = NoScore
    /\ previous = NoCall
    /\ latest = NoCall
    /\ arg_current_profile = None
    /\ gemini_response = NoResponse
    /\ extract_result = NoResult
    /\ current_profile_after = None
    /\ load_previous = NoCall
    /\ load_latest = NoCall
    /\ ss_api_key = ""
    /\ ss_schemes_data = <<>>
    /\ ss_user_profile = EmptyProfile
    /\ ss_chat_history = <<>>
    /\ ss_last_eligible_schemes = <<>>
    /\ matched_profile = None

\* routes_to_rule_based with `and` in place of `or`
routes_to_rule_based_and(profile) == ~truthy(profile) /\ ~configured

\* the test that sends find_eligible_schemes straight to the rule-based matcher
routes_to_rule_based(profile) == ~truthy(profile) \/ ~configured

\* after_ai without the fallback on an empty list
after_ai_no_fallback(ai, profile, catalog) == [exc |-> "", val |-> ai]

\* what find_eligible_schemes returns once _ai_scheme_matching has returned ai
after_ai(ai, profile, catalog) ==
    IF ai = <<>> THEN _simple_scheme_matching(profile, catalog)
    ELSE [exc |-> "", val |-> ai]

\* the unsorted list behind the result of _simple_scheme_matching
simple_unsorted(profile, catalog) ==
    IF _simple_scheme_matching(profile, catalog).exc = "" THEN simple_eligible(profile, catalog)
    ELSE <<>>

\* find_eligible_schemes up to its return or its call of the service
FindEligibleSchemes(profile, catalog) ==
    /\ pc = "idle"
    /\ arg_user_profile' = profile
    /\ arg_schemes_data' = catalog
    /\ api_response' = <<>>
    /\ ai_results' = <<>>
    /\ IF routes_to_rule_based(profile)
       THEN /\ result' = _simple_scheme_matching(profile, catalog)
            /\ eligible_schemes' = simple_unsorted(profile, catalog)
            /\ path' = "rule"
            /\ pc' = "returned"
            /\ api_calls' = 0
            /\ request' = <<>>
       ELSE /\ request' = get_schemes_summary(catalog, max_schemes_to_process)
            /\ api_calls' = 1
            /\ pc' = "awaiting"
            /\ path' = "none"
            /\ eligible_schemes' = <<>>
            /\ result' = NoResult
    /\ UNCHANGED <<configured, arg_scheme, scored, rule_vars, extract_vars, load_vars, session_vars>>

\* generate_content returns r; find_eligible_schemes runs to its return
ServiceReturns(r) ==
    /\ pc = "awaiting"
    /\ api_response' = r
    /\ LET ai == _ai_scheme_matching(r, arg_schemes_data)
       IN  /\ ai_results' = ai
           /\ result' = after_ai(ai, arg_user_profile, arg_schemes_data)
           /\ eligible_schemes' = IF ai = <<>> THEN simple_unsorted(arg_user_profile, arg_schemes_data)
                                  ELSE ai_eligible(r, arg_schemes_data)
           /\ path' = IF ai = <<>> THEN "fallback" ELSE "ai"
    /\ pc' = "returned"
    /\ UNCHANGED <<configured, arg_user_profile, arg_schemes_data, request, api_calls, arg_scheme, scored,
                   rule_vars, extract_vars, load_vars, session_vars>>

\* the caller takes the result; the matcher keeps nothing between calls
Return ==
    /\ pc = "returned"
    /\ pc' = "idle"
    /\ arg_user_profile' = None
    /\ arg_schemes_data' = <<>>
    /\ request' = <<>>
    /\ api_calls' = 0
    /\ api_response' = <<>>
    /\ ai_results' = <<>>
    /\ path' = "none"
    /\ eligible_schemes' = <<>>
    /\ result' = NoResult
    /\ UNCHANGED <<configured, arg_scheme, scored, rule_vars, extract_vars, load_vars, session_vars>>

Next ==
    \/ \E profile \in EngineProfiles, catalog \in Catalogs : FindEligibleSchemes(profile, catalog)
    \/ \E r \in Responses : ServiceReturns(r)
    \/ Return

Spec == Init /\ [][Next]_vars

(***************************************************************************)
(* The scoring function on its own: one call per step                      *)
(***************************************************************************)
\* one call of _calculate_simple_score
CalculateSimpleScore(profile, s) ==
    /\ arg_user_profile' = profile
    /\ arg_scheme' = s
    /\ scored' = _calculate_simple_score(profile, s)
    /\ UNCHANGED <<pc, configured, arg_schemes_data, request, api_calls, api_response, ai_results,
                   path, eligible_schemes, result, rule_vars, extract_vars, load_vars, session_vars>>

\* a behaviour makes one call, on a matcher that has scored nothing yet
NextScore ==
    /\ arg_scheme = None
    /\ \E profile \in ScoreProfiles, s \in ScoreSchemes : CalculateSimpleScore(profile, s)

InitScore == Init /\ ~configured

SpecScore == InitScore /\ [][NextScore]_vars

(***************************************************************************)
(* The scoring function on profiles with a falsy field: one call per step  *)
(***************************************************************************)
\* the fields the rules read
RuleFields == {"state", "disability", "occupation", "gender", "age", "category"}

\* "", 0 and None
FalsyValues == {EmptyStr, IntV(0), None}

\* the profile with the field set to the value
with_field(user_profile, field, value) ==
    Dict([key \in DOMAIN user_profile.v \cup {field} |->
             IF key = field THEN value ELSE user_profile.v[key]])

\* the profile with the field left out
without_field(user_profile, field) ==
    Dict([key \in DOMAIN user_profile.v \ {field} |-> user_profile.v[key]])

FalsyBaseProfiles ==
    {EmptyProfile, profile_farmer, profile_farmer_sc, profile_student, profile_student_kerala}

\* every base profile with one field present and falsy
FalsyProfiles ==
    {with_field(user_profile, field, value) :
        user_profile \in FalsyBaseProfiles, field \in RuleFields, value \in FalsyValues}

NextFalsy ==
    /\ arg_scheme = None
    /\ \E profile \in FalsyProfiles, s \in ScoreSchemes : CalculateSimpleScore(profile, s)

SpecFalsy == InitScore /\ [][NextFalsy]_vars

(***************************************************************************)
(* The rule-based matcher on its own: two calls in a row                   *)
(***************************************************************************)
\* simple_call on a matcher that returns nothing once it has been called
simple_call_once(user_profile, schemes_data) ==
    [made |-> TRUE,
     user_profile |-> user_profile,
     schemes_data |-> schemes_data,
     scores |-> [i \in 1..Len(schemes_data) |-> calculate_simple_score(user_profile, schemes_data[i])],
     returned |-> IF latest.made THEN [exc |-> "", val |-> <<>>]
                  ELSE _simple_scheme_matching(user_profile, schemes_data),
     user_profile_after |-> user_profile,
     schemes_data_after |-> schemes_data]

\* one call of _simple_scheme_matching: its arguments, the (score,
\* explanations) pairs its loop computes, what it returns, and its arguments
\* as the call leaves them.  The function and its helpers read the profile
\* and the records with get, lower, upper and in, and build new dicts for
\* the results; they assign to no key of either.
simple_call(user_profile, schemes_data) ==
    [made |-> TRUE,
     user_profile |-> user_profile,
     schemes_data |-> schemes_data,
     scores |-> [i \in 1..Len(schemes_data) |-> calculate_simple_score(user_profile, schemes_data[i])],
     returned |-> _simple_scheme_matching(user_profile, schemes_data),
     user_profile_after |-> user_profile,
     schemes_data_after |-> schemes_data]

SimpleSchemeMatching(profile, catalog) ==
    /\ previous' = latest
    /\ latest' = simple_call(profile, catalog)
    /\ UNCHANGED <<engine_vars, extract_vars, load_vars, session_vars>>

\* a behaviour makes two calls, on any two pairs of arguments
NextRule ==
    /\ previous = NoCall
    /\ \E profile \in RuleProfiles, catalog \in RuleCatalogs : SimpleSchemeMatching(profile, catalog)

InitRule == Init /\ ~configured

SpecRule == InitRule /\ [][NextRule]_vars

(***************************************************************************)
(* Profile extraction (ui/pages.py): one call of extract_user_profile per  *)
(* step, the profile returned by one call being the current profile of the *)
(* next, as _process_user_input passes st.session_state.user_profile      *)
(***************************************************************************)
\* (the empty text)
text_empty == <<>>

\* I could not find any details.
text_prose == <<"I", " ", "c", "o", "u", "l", "d", " ", "n", "o", "t", " ", "f", "i", "n", "d", " ", "a", "n", "y", " ", "d", "e", "t", "a", "i", "l", "s", ".">>

\* {"age": 25
text_open_brace == <<"{", "\"", "a", "g", "e", "\"", ":", " ", "2", "5">>

\* } {
text_close_before_open == <<"}", " ", "{">>

\* {"age": }
text_bad_value == <<"{", "\"", "a", "g", "e", "\"", ":", " ", "}">>

\* {"age": 25} or {"age": 30}
text_two_objects == <<"{", "\"", "a", "g", "e", "\"", ":", " ", "2", "5", "}", " ", "o", "r", " ", "{", "\"", "a", "g", "e", "\"", ":", " ", "3", "0", "}">>

\* {'age': 25}
text_single_quotes == <<"{", "'", "a", "g", "e", "'", ":", " ", "2", "5", "}">>

\* {"age": 25, "state": "Kerala"}
text_age_state == <<"{", "\"", "a", "g", "e", "\"", ":", " ", "2", "5", ",", " ", "\"", "s", "t", "a", "t", "e", "\"", ":", " ", "\"", "K", "e", "r", "a", "l", "a", "\"", "}">>

\* Sure! {"age": 0, "state": "", "occupation": "farmer"} Hope it helps.
text_occupation == <<"S", "u", "r", "e", "!", " ", "{", "\"", "a", "g", "e", "\"", ":", " ", "0", ",", " ", "\"", "s", "t", "a", "t", "e", "\"", ":", " ", "\"", "\"", ",", " ", "\"", "o", "c", "c", "u", "p", "a", "t", "i", "o", "n", "\"", ":", " ", "\"", "f", "a", "r", "m", "e", "r", "\"", "}", " ", "H", "o", "p", "e", " ", "i", "t", " ", "h", "e", "l", "p", "s", ".">>

\* ```json\n{"category": "SC"}\n``` (inside a code fence marked json)
text_fenced_object == <<"^", "^", "^", "j", "s", "o", "n", "\n", "{", "\"", "c", "a", "t", "e", "g", "o", "r", "y", "\"", ":", " ", "\"", "S", "C", "\"", "}", "\n", "^", "^", "^">>

\* {}
text_empty_object == <<"{", "}">>

\* texts with no JSON object between the first "{" and the last "}"
UnparseableTexts ==
    {text_empty, text_prose, text_open_brace, text_close_before_open, text_bad_value,
     text_two_objects, text_single_quotes}

\* {"age": null, "state": "Kerala", "land_holding": 0}
text_null_age == <<"{", "\"", "a", "g", "e", "\"", ":", " ", "n", "u", "l", "l", ",", " ", "\"", "s", "t", "a", "t", "e", "\"", ":", " ", "\"", "K", "e", "r", "a", "l", "a", "\"", ",", " ", "\"", "l", "a", "n", "d", "_", "h", "o", "l", "d", "i", "n", "g", "\"", ":", " ", "0", "}">>

\* {"name": "Ravi", "age": 25}
text_extra_field == <<"{", "\"", "n", "a", "m", "e", "\"", ":", " ", "\"", "R", "a", "v", "i", "\"", ",", " ", "\"", "a", "g", "e", "\"", ":", " ", "2", "5", "}">>

\* texts that hold one
ParseableTexts ==
    {text_age_state, text_occupation, text_fenced_object, text_empty_object, text_null_age,
     text_extra_field}

\* PROFILE_FIELDS
PROFILE_FIELDS ==
    {"age", "state", "category", "income", "disability", "occupation", "education", "gender",
     "family_size", "land_holding"}

\* what model.generate_content does: it raises (unreachable, deadline
\* exceeded, rejected key), returns an object without the attribute text,
\* returns a response whose property text raises ValueError (no valid part),
\* or returns a response with a text
GeminiOutcomes ==
    {[kind |-> "raises", exc |-> e] : e \in {"ServiceUnavailable", "DeadlineExceeded", "InvalidArgument"}}
    \cup {[kind |-> "no_text"], [kind |-> "text_raises"]}
    \cup {[kind |-> "text", text |-> t] : t \in UnparseableTexts \cup ParseableTexts}

\* the current_profile of a first call
ExtractProfiles ==
    {None, EmptyProfile, profile_farmer, profile_farmer_sc, profile_student, profile_student_kerala}

\* re.search(r'\{.*\}', s, re.DOTALL): from the first "{" to the last "}"
re_search(s) ==
    LET opens == {i \in 1..Len(s) : s[i] = "{"}
        closes == {i \in 1..Len(s) : s[i] = "}"}
        first == CHOOSE i \in opens : \A j \in opens : i <= j
        last == CHOOSE i \in closes : \A j \in closes : j <= i
    IN  IF opens = {} \/ closes = {} THEN [found |-> FALSE, group |-> <<>>]
        ELSE IF last < first THEN [found |-> FALSE, group |-> <<>>]
        ELSE [found |-> TRUE, group |-> SubSeq(s, first, last)]

\* a merge loop that assigns every value
kept_value_always(value) == TRUE

\* the test of the merge loop: value and value != 0 and value != ""
kept_value(value) == truthy(value) /\ ~py_eq(value, IntV(0)) /\ ~py_eq(value, EmptyStr)

\* current_profile.copy() after the merge loop over extracted_data.items()
merge_profile(current_profile, extracted_data) ==
    LET kept == {key \in DOMAIN extracted_data.v : kept_value(extracted_data.v[key])}
    IN  Dict([key \in DOMAIN current_profile.v \cup kept |->
                 IF key \in kept THEN extracted_data.v[key] ELSE current_profile.v[key]])

\* the inner try block, given getattr(response, 'text', '')
extract_inner(current_profile, response_text) ==
    LET match == re_search(response_text)
        extracted_data == json_loads(match.group)
    IN  IF ~match.found THEN [exc |-> "", val |-> current_profile]
        ELSE IF ~extracted_data.ok THEN [exc |-> "JSONDecodeError", val |-> None]
        ELSE IF current_profile.t # "dict" THEN [exc |-> "AttributeError", val |-> None]
        ELSE IF extracted_data.val.t # "dict" THEN [exc |-> "AttributeError", val |-> None]
        ELSE [exc |-> "", val |-> merge_profile(current_profile, extracted_data.val)]

\* the inner try with its except Exception clause
extract_inner_caught(current_profile, response_text) ==
    LET inner == extract_inner(current_profile, response_text)
    IN  IF inner.exc # "" THEN [exc |-> "", val |-> current_profile] ELSE inner

\* the outer try block
extract_outer(current_profile, outcome) ==
    IF outcome.kind = "raises" THEN [exc |-> outcome.exc, val |-> None]
    ELSE IF outcome.kind = "text_raises" THEN [exc |-> "ValueError", val |-> None]
    ELSE IF outcome.kind = "no_text" THEN extract_inner_caught(current_profile, <<>>)
    ELSE extract_inner_caught(current_profile, outcome.text)

\* extract_user_profile without the outer except clause
extract_user_profile_uncaught(current_profile, outcome) ==
    extract_outer(current_profile, outcome)

\* extract_user_profile: the outer try with its except Exception clause
extract_user_profile(current_profile, outcome) ==
    LET outer == extract_outer(current_profile, outcome)
    IN  IF outer.exc # "" THEN [exc |-> "", val |-> current_profile] ELSE outer

\* one call; the function assigns to no key of current_profile, only to
\* keys of its copy
ExtractUserProfile(current_profile, outcome) ==
    /\ arg_current_profile' = current_profile
    /\ gemini_response' = outcome
    /\ extract_result' = extract_user_profile(current_profile, outcome)
    /\ current_profile_after' = current_profile
    /\ UNCHANGED <<engine_vars, rule_vars, load_vars, session_vars>>

\* the profiles a call can be made with: any on a first call, the one the
\* previous call returned afterwards
SessionProfiles ==
    IF gemini_response = NoResponse THEN ExtractProfiles
    ELSE IF extract_result.exc = "" THEN {extract_result.val} ELSE {}

NextExtract ==
    \E current_profile \in SessionProfiles, outcome \in GeminiOutcomes :
        ExtractUserProfile(current_profile, outcome)

SpecExtract == Init /\ [][NextExtract]_vars

(***************************************************************************)
(* Catalog loading: load_schemes_data of ui/pages.py and of DataLoader     *)
(* (utils/data_loader.py), two calls in a row                              *)
(***************************************************************************)
MaxRecords == 2

\* {"scheme_name": "PMK", "state": "All India"}
record_PMK == <<"{", "\"", "s", "c", "h", "e", "m", "e", "_", "n", "a", "m", "e", "\"", ":", " ", "\"", "P", "M", "K", "\"", ",", " ", "\"", "s", "t", "a", "t", "e", "\"", ":", " ", "\"", "A", "l", "l", " ", "I", "n", "d", "i", "a", "\"", "}">>

\* {"scheme_name": "MSS"}
record_MSS == <<"{", "\"", "s", "c", "h", "e", "m", "e", "_", "n", "a", "m", "e", "\"", ":", " ", "\"", "M", "S", "S", "\"", "}">>

SourceRecords == {record_PMK, record_MSS}

RecordLists == SeqUpTo(SourceRecords, MaxRecords)

\* the file holds the records as one flat array
flat_source(records) == array_text(records)

\* the same records one level deeper: all in one inner array, or each in an
\* inner array of its own
wrapped_sources(records) ==
    {array_text(<<array_text(records)>>),
     array_text([i \in 1..Len(records) |-> array_text(<<records[i]>>)])}

\* arrays with an item that is neither a record nor an array, and with a
\* record next to an inner array
MixedSourceTexts ==
    {array_text(<<<<"5">>, record_PMK>>), array_text(<<record_PMK, array_text(<<record_MSS>>)>>)}

\* files whose top-level value is no array: a record, a text, a number, null
NonListSourceTexts ==
    {<<"{", "\"", "s", "c", "h", "e", "m", "e", "s", "\"", ":", " ", "[", "]", "}">>, <<"\"", "s", "c", "h", "e", "m", "e", "s", "\"">>, <<"5">>, <<"n", "u", "l", "l">>}

\* files that are not JSON
InvalidSourceTexts == {<<"[", "{">>, <<>>}

SourceTexts ==
    {flat_source(records) : records \in RecordLists}
    \cup UNION {wrapped_sources(records) : records \in RecordLists}
    \cup MixedSourceTexts \cup NonListSourceTexts \cup InvalidSourceTexts

\* what file_path names: no file, or a file with a text
MissingSource == [exists |-> FALSE]

Sources == {MissingSource} \cup {[exists |-> TRUE, text |-> t] : t \in SourceTexts}

\* the loop body of the flattening with append in place of extend
flatten_item_nested(item) ==
    IF item.t \in {"list", "dict"} THEN <<item>> ELSE <<>>

\* the loop body of the flattening: an inner list is spliced in, a record is
\* appended, anything else is passed over
flatten_item(item) ==
    IF item.t = "list" THEN item.v
    ELSE IF item.t = "dict" THEN <<item>>
    ELSE <<>>

RECURSIVE flatten(_)
flatten(items) ==
    IF items = <<>> THEN <<>> ELSE flatten_item(Head(items)) \o flatten(Tail(items))

\* load_schemes_data of ui/pages.py: [exc, val, errors], errors the number
\* of st.error calls
pages_load_schemes_data(source) ==
    IF ~source.exists THEN [exc |-> "", val |-> List(<<>>), errors |-> 1]
    ELSE LET data == json_loads(source.text)
         IN  IF ~data.ok THEN [exc |-> "", val |-> List(<<>>), errors |-> 1]
             ELSE IF data.val.t = "list"
                  THEN [exc |-> "", val |-> List(flatten(data.val.v)), errors |-> 0]
             ELSE [exc |-> "", val |-> List(<<>>), errors |-> 1]

\* whether len(x) returns
has_len(x) == x.t \in {"list", "dict", "str"}

\* DataLoader.load_schemes_data: the parsed value is returned as it is once
\* len() of it has been logged
DataLoader_load_schemes_data(source) ==
    IF ~source.exists THEN [exc |-> "", val |-> List(<<>>), errors |-> 1]
    ELSE LET data == json_loads(source.text)
         IN  IF ~data.ok THEN [exc |-> "", val |-> List(<<>>), errors |-> 1]
             ELSE IF ~has_len(data.val) THEN [exc |-> "", val |-> List(<<>>), errors |-> 1]
             ELSE [exc |-> "", val |-> data.val, errors |-> 0]

Loaders == {"pages", "DataLoader"}

load_call(loader, source) ==
    [made |-> TRUE, loader |-> loader, source |-> source,
     returned |-> IF loader = "pages" THEN pages_load_schemes_data(source)
                  ELSE DataLoader_load_schemes_data(source)]

LoadSchemesData(loader, source) ==
    /\ load_previous' = load_latest
    /\ load_latest' = load_call(loader, source)
    /\ UNCHANGED <<engine_vars, rule_vars, extract_vars, session_vars>>

NextLoad ==
    /\ load_previous = NoCall
    /\ \E loader \in Loaders, source \in Sources : LoadSchemesData(loader, source)

SpecLoad == Init /\ [][NextLoad]_vars

(***************************************************************************)
(* The chat session (ui/pages.py): user turns through _process_user_input  *)
(* and the buttons of the settings page                                    *)
(***************************************************************************)
MaxTurns == 2

\* {"state": "Kerala"}
record_nameless == <<"{", "\"", "s", "t", "a", "t", "e", "\"", ":", " ", "\"", "K", "e", "r", "a", "l", "a", "\"", "}">>

\* the files the catalog is reloaded from
SessionSources ==
    {MissingSource,
     [exists |-> TRUE, text |-> flat_source(<<record_PMK>>)],
     [exists |-> TRUE, text |-> flat_source(<<record_nameless, record_MSS>>)],
     [exists |-> TRUE, text |-> array_text(<<array_text(<<record_PMK, record_MSS>>)>>)]}

\* os.getenv('GEMINI_API_KEY'): unset or set
EnvKeys == {"", "key"}

\* what generate_content does for the extraction prompt of a turn
SessionExtractions ==
    {[kind |-> "raises", exc |-> "DeadlineExceeded"],
     [kind |-> "text", text |-> text_age_state],
     [kind |-> "text", text |-> text_occupation]}

\* {"score": 85, "explanation": "fits"}
text_score_85 == <<"{", "\"", "s", "c", "o", "r", "e", "\"", ":", " ", "8", "5", ",", " ", "\"", "e", "x", "p", "l", "a", "n", "a", "t", "i", "o", "n", "\"", ":", " ", "\"", "f", "i", "t", "s", "\"", "}">>

\* Here you go: {"score": 30, "explanation": "unlikely"}
text_score_30 == <<"H", "e", "r", "e", " ", "y", "o", "u", " ", "g", "o", ":", " ", "{", "\"", "s", "c", "o", "r", "e", "\"", ":", " ", "3", "0", ",", " ", "\"", "e", "x", "p", "l", "a", "n", "a", "t", "i", "o", "n", "\"", ":", " ", "\"", "u", "n", "l", "i", "k", "e", "l", "y", "\"", "}">>

\* what generate_content does for the prompt of one scheme
SchemeOutcomes ==
    {[kind |-> "raises", exc |-> "ServiceUnavailable"],
     [kind |-> "text", text |-> text_score_85],
     [kind |-> "text", text |-> text_score_30]}

\* no result for a scheme: the loop continues
NoReply == [included |-> FALSE, score |-> 0, explanation |-> EmptyStr]

\* if result.get('score', 0) >= 40, with the fields the result is built from;
\* comparing a value that is no number raises, and the loop continues
reply_of_score(score, loaded) ==
    IF ~is_number(score) THEN NoReply
    ELSE IF num(score) >= 40
         THEN [included |-> TRUE, score |-> num(score),
               explanation |-> get(loaded, "explanation", EmptyStr)]
    ELSE NoReply

\* result = json.loads(json_str) and the use of result
reply_of_loaded(loaded) ==
    IF ~loaded.ok THEN NoReply
    ELSE IF loaded.val.t # "dict" THEN NoReply
    ELSE reply_of_score(get(loaded.val, "score", IntV(0)), loaded.val)

\* if match: ... else: continue
reply_of_match(match) ==
    IF ~match.found THEN NoReply ELSE reply_of_loaded(json_loads(match.group))

\* the inner try of find_eligible_schemes up to the threshold test: what
\* the reply for one scheme contributes
scheme_reply(outcome) ==
    IF outcome.kind # "text" THEN NoReply ELSE reply_of_match(re_search(outcome.text))

\* scheme_reply of each outcome, computed once
scheme_replies == [outcome \in SchemeOutcomes |-> scheme_reply(outcome)]

\* the inner try of find_eligible_schemes for one scheme: the result to
\* append, or nothing (continue)
appended_result(scheme, reply) ==
    IF reply.included
    THEN <<[scheme_name |-> get(scheme, "scheme_name", EmptyStr),
            matching_score |-> reply.score,
            eligibility_explanation |-> reply.explanation,
            scheme_details |-> scheme]>>
    ELSE <<>>

result_for_scheme(scheme, outcome) == appended_result(scheme, scheme_replies[outcome])

\* items[:n]
first_n(items, n) == SubSeq(items, 1, min(Len(items), n))

RECURSIVE pages_eligible(_, _)
pages_eligible(schemes_data, outcomes) ==
    IF schemes_data = <<>> THEN <<>>
    ELSE result_for_scheme(Head(schemes_data), Head(outcomes))
         \o pages_eligible(Tail(schemes_data), Tail(outcomes))

\* find_eligible_schemes of ui/pages.py: one service call for each of the
\* first 50 schemes, the results sorted and cut to 20
pages_find_eligible_schemes(schemes_data, outcomes) ==
    first_n(sorted_by_score(pages_eligible(first_n(schemes_data, 50), outcomes)), 20)

\* whether showing the top three matches raises: scheme['scheme_name'] on a
\* record without that key
render_raises(eligible) ==
    \E i \in 1..min(Len(eligible), 3) : "scheme_name" \notin DOMAIN eligible[i].scheme_details.v

\* the profiles a session can hold: the empty one and what the extractions
\* make of it
TurnProfiles ==
    {EmptyProfile,
     Dict([age |-> IntV(25), state |-> Str(txt_Kerala)]),
     Dict([occupation |-> Str(txt_farmer)]),
     Dict([age |-> IntV(25), state |-> Str(txt_Kerala), occupation |-> Str(txt_farmer)])}

\* extract_user_profile of each session profile and extraction, computed once
turn_profiles ==
    [profile \in TurnProfiles |->
        [extraction \in SessionExtractions |-> extract_user_profile(profile, extraction).val]]

\* load_schemes_data of each file, computed once
reloaded == [source \in SessionSources |-> pages_load_schemes_data(source).val.v]

\* the assistant's answer of a turn that got as far as matching
turn_answer(eligible) ==
    IF eligible = <<>> THEN "need_more_information"
    ELSE IF render_raises(eligible) THEN "error"
    ELSE "found"

\* the entries a turn appends, with a failed turn leaving no assistant entry
turn_messages_silent_error(answer) ==
    IF answer = "error" THEN <<[role |-> "user", content |-> "input"]>>
    ELSE <<[role |-> "user", content |-> "input"], [role |-> "assistant", content |-> answer]>>

\* the entries a turn appends to chat_history
turn_messages(answer) ==
    <<[role |-> "user", content |-> "input"], [role |-> "assistant", content |-> answer]>>

\* render_main_page with a chat input: the sidebar takes the key from the
\* environment, then _process_user_input runs
ProcessUserInput(env_key, extraction, outcomes) ==
    /\ ss_api_key' = env_key
    /\ IF env_key = ""
       THEN /\ ss_chat_history' = ss_chat_history \o turn_messages("no_api_key")
            /\ UNCHANGED <<ss_user_profile, ss_last_eligible_schemes, matched_profile>>
       ELSE IF ss_schemes_data = <<>>
       THEN /\ ss_chat_history' = ss_chat_history \o turn_messages("no_schemes_data")
            /\ UNCHANGED <<ss_user_profile, ss_last_eligible_schemes, matched_profile>>
       ELSE /\ ss_user_profile' = turn_profiles[ss_user_profile][extraction]
            /\ matched_profile' = ss_user_profile'
            /\ ss_last_eligible_schemes' = pages_find_eligible_schemes(ss_schemes_data, outcomes)
            /\ ss_chat_history' = ss_chat_history \o turn_messages(turn_answer(ss_last_eligible_schemes'))
    /\ UNCHANGED <<ss_schemes_data, engine_vars, rule_vars, extract_vars, load_vars>>

\* the button Reload Schemes Data, shown while no catalog is loaded
ReloadSchemesData(source) ==
    /\ ss_schemes_data = <<>>
    /\ ss_schemes_data' = reloaded[source]
    /\ UNCHANGED <<ss_api_key, ss_user_profile, ss_chat_history, ss_last_eligible_schemes,
                   matched_profile, engine_vars, rule_vars, extract_vars, load_vars>>

\* the button Clear Profile Only
ClearProfileOnly ==
    /\ ss_user_profile' = EmptyProfile
    /\ UNCHANGED <<ss_api_key, ss_schemes_data, ss_chat_history, ss_last_eligible_schemes,
                   matched_profile, engine_vars, rule_vars, extract_vars, load_vars>>

\* the button Clear Chat History
ClearChatHistory ==
    /\ ss_chat_history' = <<>>
    /\ UNCHANGED <<ss_api_key, ss_schemes_data, ss_user_profile, ss_last_eligible_schemes,
                   matched_profile, engine_vars, rule_vars, extract_vars, load_vars>>

\* the button Reset Everything: the session state is cleared, the key and
\* the catalog are put back, and the rerun initialises what is missing
ResetEverything ==
    /\ ss_user_profile' = EmptyProfile
    /\ ss_chat_history' = <<>>
    /\ ss_last_eligible_schemes' = <<>>
    /\ UNCHANGED <<ss_api_key, ss_schemes_data, matched_profile,
                   engine_vars, rule_vars, extract_vars, load_vars>>

NextSession ==
    \/ /\ Len(ss_chat_history) < 2 * MaxTurns
       /\ \E env_key \in EnvKeys, extraction \in SessionExtractions,
             outcomes \in [1..Len(ss_schemes_data) -> SchemeOutcomes] :
               ProcessUserInput(env_key, extraction, outcomes)
    \/ \E source \in SessionSources : ReloadSchemesData(source)
    \/ ClearProfileOnly
    \/ ClearChatHistory
    \/ ResetEverything

SpecSession == Init /\ [][NextSession]_vars

(***************************************************************************)
(* Properties                                                              *)
(***************************************************************************)
\* the call has returned from the rule-based matcher without raising
RuleReturned == pc = "returned" /\ path \in {"rule", "fallback"} /\ result.exc = ""

\* the unclamped rule score of a scheme for the profile of the current call
Unclamped(s) == calculate_simple_score(arg_user_profile, s).score

AIAnswered == pc = "returned" /\ configured /\ truthy(arg_user_profile) /\ api_calls = 1

\* C2: with a credential configured and a non-empty profile, a service body
\* that contains "error" in any letter case makes find_eligible_schemes return
\* exactly what the rule-based matcher returns for the profile and the catalog.
C2_FallbackLaw ==
    (AIAnswered /\ contains(kw_error, lower(api_response))) =>
        result = _simple_scheme_matching(arg_user_profile, arg_schemes_data)

\* the body is a well-formed array that resolves to a result, and only the
\* word "Error" in it sends the call to the rule-based matcher
C2_Witness ==
    /\ AIAnswered
    /\ contains(kw_error, lower(api_response))
    /\ ~contains(kw_error, api_response)
    /\ _parse_matching_response(api_response, arg_schemes_data) # <<>>
    /\ result.val # <<>>
    /\ result.val # _parse_matching_response(api_response, arg_schemes_data)

\* C3: an empty or absent profile, or a missing credential, means no call of
\* the external service, and the result is the rule-based matcher's result
\* over the full catalog.
C3_Routing ==
    (pc # "idle" /\ (~truthy(arg_user_profile) \/ ~configured)) =>
        /\ pc = "returned"
        /\ api_calls = 0
        /\ api_response = <<>>
        /\ result = _simple_scheme_matching(arg_user_profile, arg_schemes_data)

\* a full profile without a credential gets rule-based results
C3_Witness ==
    /\ pc = "returned"
    /\ ~configured
    /\ truthy(arg_user_profile)
    /\ api_calls = 0
    /\ result.val # <<>>

\* C4: on the AI path a non-empty list from the AI-assisted matcher is
\* returned as it is, and an empty one is replaced by the rule-based matcher's
\* result over the full catalog.
C4_OrchestratorFallback ==
    AIAnswered =>
        IF ai_results # <<>> THEN result = [exc |-> "", val |-> ai_results]
        ELSE result = _simple_scheme_matching(arg_user_profile, arg_schemes_data)

\* a valid empty array from the service, and rule-based results returned
C4_Witness ==
    /\ AIAnswered
    /\ api_response = resp_empty_array
    /\ ai_results = <<>>
    /\ result.val # <<>>

\* C5: every result of the rule-based matcher carries min(unclamped score,
\* 100), an integer between 0 and 100.
C5_RuleScoreClamped ==
    RuleReturned =>
        \A i \in 1..Len(result.val) :
            LET u == Unclamped(result.val[i].scheme_details)
            IN  /\ result.val[i].matching_score = IF u > 100 THEN 100 ELSE u
                /\ result.val[i].matching_score \in 0..100

\* a scheme that scores above 100 before clamping
C5_Witness ==
    /\ RuleReturned
    /\ \E i \in 1..Len(result.val) :
          /\ Unclamped(result.val[i].scheme_details) > 100
          /\ result.val[i].matching_score = 100

\* C6: every result of the AI-assisted matcher carries a score between 0 and
\* 100, whatever integer the service returned.
C6_AIScoreClamped ==
    (pc = "returned" /\ path = "ai") =>
        \A i \in 1..Len(result.val) : result.val[i].matching_score \in 0..100

\* the place of in[k] in a rearrangement of in with non-increasing scores
\* in which equal scores keep their order: after every element of a higher
\* score and after the earlier elements of the same score
StablePlace(in, k) ==
    1 + Cardinality({m \in 1..Len(in) : in[m].matching_score > in[k].matching_score})
      + Cardinality({m \in 1..(k - 1) : in[m].matching_score = in[k].matching_score})

\* out is a stable descending sort of in: a rearrangement of in with
\* non-increasing scores in which equal scores keep their order
IsStableSortOf(out, in) ==
    /\ Len(out) = Len(in)
    /\ \A k \in 1..Len(in) : out[StablePlace(in, k)] = in[k]

\* C8: the list either matcher returns is the stable descending sort by
\* matching_score of its results in construction order.
C8_StableDescending ==
    (pc = "returned" /\ result.exc = "") => IsStableSortOf(result.val, eligible_schemes)

\* two different results with the same score, in construction order
C8_Witness ==
    /\ pc = "returned"
    /\ Len(result.val) = 2
    /\ result.val[1].matching_score = result.val[2].matching_score
    /\ result.val[1] # result.val[2]

FieldText(d, key) == IF key \in DOMAIN d.v /\ d.v[key].t = "str" THEN d.v[key].v ELSE <<>>

Known(d, key) == key \in DOMAIN d.v /\ truthy(d.v[key])

Mentions(txt, keywords) == \E kw \in keywords : contains(lower(kw), lower(txt))

TableState(p, s) ==
    \/ ~Known(p, "state")
    \/ lower(FieldText(s, "state")) = kw_all_india
    \/ Mentions(FieldText(s, "state"), {kw_all_states})
    \/ Mentions(FieldText(s, "state"), {FieldText(p, "state")})

TableDisability(p, s) ==
    /\ Known(p, "disability")
    /\ \/ Mentions(FieldText(s, "tags"), {kw_disabled, kw_pwd, kw_disability, kw_handicapped})
       \/ Mentions(FieldText(s, "eligibility_criteria"), {kw_disabled, kw_pwd, kw_disability, kw_handicapped})

TableFarmer(p, s) ==
    lower(FieldText(p, "occupation")) = kw_farmer /\ Mentions(FieldText(s, "tags"), {kw_farmer, kw_agriculture})

TableStudent(p, s) ==
    lower(FieldText(p, "occupation")) = kw_student /\ Mentions(FieldText(s, "tags"), {kw_student, kw_education})

TableUnemployed(p, s) ==
    lower(FieldText(p, "occupation")) = kw_unemployed /\ Mentions(FieldText(s, "tags"), {kw_employment, kw_job})

TableGender(p, s) ==
    lower(FieldText(p, "gender")) = kw_female
    /\ Mentions(FieldText(s, "tags"), {kw_women, kw_girl, kw_female, kw_mahila})

TableAge(p, s) ==
    /\ Known(p, "age")
    /\ p.v["age"].t = "int"
    /\ \/ p.v["age"].v <= 25 /\ Mentions(FieldText(s, "tags"), {kw_student, kw_education})
       \/ p.v["age"].v >= 60 /\ Mentions(FieldText(s, "tags"), {kw_senior, kw_elderly})

TableCategory(p, s) ==
    /\ upper(FieldText(p, "category")) \in {kw_SC, kw_ST, kw_OBC}
    /\ LET keywords == {kw_SC, kw_ST, kw_OBC, kw_MINORITY, kw_SCHEDULED_CASTE, kw_SCHEDULED_TRIBE}
       IN  Mentions(FieldText(s, "tags"), keywords) \/ Mentions(FieldText(s, "eligibility_criteria"), keywords)

\* points and reasons of the five rules other than the state rule
TableOtherPoints(p, s) ==
    (IF TableDisability(p, s) THEN 25 ELSE 0)
    + (IF TableFarmer(p, s) \/ TableStudent(p, s) THEN 25 ELSE IF TableUnemployed(p, s) THEN 10 ELSE 0)
    + (IF TableGender(p, s) THEN 20 ELSE 0)
    + (IF TableAge(p, s) THEN 15 ELSE 0)
    + (IF TableCategory(p, s) THEN 20 ELSE 0)

TableOtherReasons(p, s) ==
       (IF TableDisability(p, s) THEN <<"Disability benefits available">> ELSE <<>>)
    \o (IF TableFarmer(p, s) THEN <<"Farmer/Agriculture scheme">>
        ELSE IF TableStudent(p, s) THEN <<"Student/Education scheme">>
        ELSE IF TableUnemployed(p, s) THEN <<"Employment scheme">> ELSE <<>>)
    \o (IF TableGender(p, s) THEN <<"Women/Girl focused scheme">> ELSE <<>>)
    \o (IF TableAge(p, s) THEN <<"Age appropriate for education scheme">> ELSE <<>>)
    \o (IF TableCategory(p, s) THEN <<"Social category benefits">> ELSE <<>>)

\* a call of _calculate_simple_score has been made
Scored == arg_scheme # None

\* C7: _calculate_simple_score returns the sum of the rules of the table that
\* fire, each rule judged on its own (state 30, disability 25, occupation 25 or
\* 10, gender 20, age 15, social category 20), and the reasons of the fired
\* rules in table order, the state reason only for a non-empty profile state.
C7_ScoreIsTableSum ==
    Scored =>
        /\ scored.exc = ""
        /\ scored.score = (IF TableState(arg_user_profile, arg_scheme) THEN 30 ELSE 0)
                          + TableOtherPoints(arg_user_profile, arg_scheme)
        /\ scored.explanations =
               (IF TableState(arg_user_profile, arg_scheme) /\ FieldText(arg_user_profile, "state") # <<>>
                THEN <<"State eligibility matched">> ELSE <<>>)
               \o TableOtherReasons(arg_user_profile, arg_scheme)

\* the 10-point occupation branch together with the gender rule and the
\* state rule on an unknown state
C7_Witness ==
    /\ Scored
    /\ scored.score = 60
    /\ scored.explanations = <<"Employment scheme", "Women/Girl focused scheme">>

\* C9: a profile without a state, or with an empty one, meets the state rule
\* of every scheme: it gets the 30 points on top of what the other rules give,
\* and no "State eligibility matched" reason.
C9_VacuousStateMatch ==
    (Scored /\ FieldText(arg_user_profile, "state") = <<>>) =>
        /\ _is_state_match(<<>>, lower(FieldText(arg_scheme, "state")))
        /\ scored.score = 30 + TableOtherPoints(arg_user_profile, arg_scheme)
        /\ \A i \in 1..Len(scored.explanations) : scored.explanations[i] # "State eligibility matched"

\* no state in the profile, a scheme of one named state, and only the 30 points
C9_Witness ==
    /\ Scored
    /\ "state" \notin DOMAIN arg_user_profile.v
    /\ FieldText(arg_scheme, "state") = txt_Kerala
    /\ scored.score = 30
    /\ scored.explanations = <<>>

\* what call_api returns when the request times out, the connection fails,
\* the status is not 200, the body has no candidates, or the body is not JSON
TransportFailures ==
    {resp_timeout, resp_connection_error, resp_api_error, resp_no_candidates, resp_invalid_json}

\* C14: when the service call of a find_eligible_schemes invocation fails at
\* the transport layer, the invocation has called the service exactly once
\* and returns what the rule-based matcher returns.
C14_FailedCallNotRetried ==
    (pc = "returned" /\ path # "rule" /\ api_response \in TransportFailures) =>
        /\ api_calls = 1
        /\ ai_results = <<>>
        /\ path = "fallback"
        /\ result = _simple_scheme_matching(arg_user_profile, arg_schemes_data)

\* the call timed out and the rule-based matcher found a scheme
C14_Witness ==
    /\ pc = "returned"
    /\ api_response = resp_timeout
    /\ api_calls = 1
    /\ result.exc = ""
    /\ result.val # <<>>

\* the body, after the code-fence handling, is a JSON array of records
ArrayOfRecords(response) ==
    LET parsed == loads_cleaned(response)
    IN  /\ parsed.ok
        /\ parsed.val.t = "list"
        /\ \A i \in 1..Len(parsed.val.v) : parsed.val.v[i].t = "dict"

\* C15: a body that is not a JSON array of records makes the AI-assisted
\* matcher return the empty list, and the engine falls back to the
\* rule-based matcher; no part of such a body is returned.
C15_UnparseableIsTotalFailure ==
    (pc = "returned" /\ path # "rule" /\ ~ArrayOfRecords(api_response)) =>
        /\ ai_results = <<>>
        /\ path = "fallback"

\* the service returned the body r and the call has returned
Answered(r) == pc = "returned" /\ path # "rule" /\ api_response = r

\* C16: a JSON array inside a code fence, plain or marked json, is parsed to
\* the list the same array gives without the fence.
C16_FenceStripped ==
    \A fenced \in {resp_fenced, resp_fenced_json} :
        Answered(fenced) =>
            ai_results = _parse_matching_response(resp_unfenced, arg_schemes_data)

\* the positions of the catalog whose record carries exactly the name n
NamedExactly(n) ==
    {i \in 1..Len(arg_schemes_data) :
        /\ "scheme_name" \in DOMAIN arg_schemes_data[i].v
        /\ arg_schemes_data[i].v.scheme_name = n}

\* the positions of the parsed array whose record names a catalog record
Resolved(items) ==
    {k \in 1..Len(items) :
        /\ items[k].t = "dict"
        /\ "scheme_name" \in DOMAIN items[k].v
        /\ NamedExactly(items[k].v.scheme_name) # {}}

\* C17: on the AI path every record of the parsed array whose scheme_name
\* is, character for character, the name of a catalog record is returned,
\* with scheme_details the first catalog record of that name; records of
\* any other name are dropped and nothing else is returned.
C17_ExactFirstMatch ==
    (pc = "returned" /\ path = "ai") =>
        LET items == loads_cleaned(api_response).val.v
        IN  /\ Len(result.val) = Cardinality(Resolved(items))
            /\ \A k \in Resolved(items) :
                   \E r \in 1..Len(result.val) : result.val[r].scheme_name = items[k].v.scheme_name
            /\ \A r \in 1..Len(result.val) :
                   LET hits == NamedExactly(result.val[r].scheme_name)
                   IN  /\ hits # {}
                       /\ result.val[r].scheme_details
                              = arg_schemes_data[CHOOSE i \in hits : \A j \in hits : i <= j]

\* three records named pmk, XYZ and PMK against a catalog with two records
\* named PMK: one result, carrying the first of the two
C17_Witness ==
    /\ Answered(resp_names)
    /\ arg_schemes_data = <<scheme_PMK_Kerala, scheme_PMK>>
    /\ Len(result.val) = 1
    /\ result.val[1].scheme_details = scheme_PMK_Kerala

\* the explanation C18 gives a parsed record: its reasons joined with "; ",
\* "General match" when it has no reasons or an empty list of them
Explained(summary) ==
    IF "reasons" \notin DOMAIN summary.v THEN "General match"
    ELSE IF summary.v.reasons.v = <<>> THEN "General match"
    ELSE join_reasons(summary.v.reasons)

\* C18: on the AI path every result carries, as eligibility_explanation,
\* the reasons of a returned record of its name joined with "; ", and
\* "General match" when that record has no reasons or an empty list.
C18_ExplanationDefault ==
    (pc = "returned" /\ path = "ai") =>
        LET items == loads_cleaned(api_response).val.v
        IN  \A r \in 1..Len(result.val) :
                \E k \in Resolved(items) :
                    /\ items[k].v.scheme_name = result.val[r].scheme_name
                    /\ result.val[r].eligibility_explanation = Explained(items[k])

\* C19: whatever the profile, the catalog and the service's answer,
\* find_eligible_schemes returns at most MAX_SCHEMES_DISPLAY results.
C19_TruncatedToDisplayCount ==
    pc = "returned" => Len(result.val) <= MAX_SCHEMES_DISPLAY

\* a MatchResult: a name, a score, an explanation and the catalog record
WellFormed(match_result) ==
    /\ DOMAIN match_result =
           {"scheme_name", "matching_score", "eligibility_explanation", "scheme_details"}
    /\ match_result.matching_score \in Int
    /\ match_result.scheme_details.t = "dict"

\* C25: whatever the profile (an absent one included), the catalog and the
\* service's answer, find_eligible_schemes raises nothing and returns a
\* list of well-formed MatchResults.
C25_NothingIsFatal ==
    pc = "returned" =>
        /\ result.exc = ""
        /\ \A i \in 1..Len(result.val) : WellFormed(result.val[i])

\* how often x occurs in the sequence xs
Occurrences(x, xs) == Cardinality({i \in 1..Len(xs) : xs[i] = x})

\* the scheme_details of the returned results, in order
ReturnedDetails == [i \in 1..Len(result.val) |-> result.val[i].scheme_details]

\* C28: no catalog record is returned more often than the catalog holds
\* it, on the rule-based path and on the AI path.
C28_NoDuplicateResults ==
    (pc = "returned" /\ result.exc = "") =>
        \A i \in 1..Len(result.val) :
            Occurrences(result.val[i].scheme_details, ReturnedDetails)
                <= Occurrences(result.val[i].scheme_details, arg_schemes_data)

\* C12: the score _calculate_simple_score returns, which no min has been
\* applied to, is at least 0 and at most 145 for every profile and scheme.
C12_ScoreRange ==
    (Scored /\ scored.exc = "") => (0 <= scored.score /\ scored.score <= 145)

\* every rule has fired at once: 30 + 25 + 25 + 20 + 15 + 20
C12_Witness ==
    /\ Scored
    /\ scored.exc = ""
    /\ scored.score = state_match + primary_target_match + primary_target_match
                        + category_match + age_appropriateness + category_match
    /\ Len(scored.explanations) = 6

(***************************************************************************)
(* Properties of the rule-based matcher on its own (SpecRule)              *)
(***************************************************************************)
\* profile {state: Maharashtra, occupation: farmer} against the one scheme
\* {state: Maharashtra, tags: "farmer, agriculture, employment"}
ScenarioB_before(c) ==
    c.made /\ c.user_profile = profile_farmer /\ c.schemes_data = <<scheme_KSY>>

\* the same with category SC in the profile and eligibility_criteria
\* "open to SC/ST" in the scheme
ScenarioB_after(c) ==
    c.made /\ c.user_profile = profile_farmer_sc /\ c.schemes_data = <<scheme_KSY_sc>>

SameArguments ==
    /\ previous.made
    /\ latest.made
    /\ previous.user_profile = latest.user_profile
    /\ previous.schemes_data = latest.schemes_data

ExtractionFailed ==
    \/ gemini_response.kind \in {"raises", "no_text", "text_raises"}
    \/ gemini_response.kind = "text" /\ gemini_response.text \in UnparseableTexts

\* C20: when the service raises, times out or returns text without a
\* parseable record, extract_user_profile raises nothing and returns the
\* current profile, which is left with every field as it was.
C20_FailureKeepsProfile ==
    ExtractionFailed =>
        /\ extract_result.exc = ""
        /\ extract_result.val = arg_current_profile
        /\ current_profile_after = arg_current_profile

\* a profile with an age and a state, built by an earlier call, comes back
\* unchanged from a call in which the service timed out
C20_Witness ==
    /\ gemini_response = [kind |-> "raises", exc |-> "DeadlineExceeded"]
    /\ arg_current_profile =
           Dict([state |-> Str(txt_Kerala), occupation |-> Str(txt_farmer), age |-> IntV(25)])
    /\ extract_result = [exc |-> "", val |-> arg_current_profile]

\* C27: the keys of the profile extract_user_profile returns are keys of
\* the profile it was given or among the ten recognized fields.
C27_OnlyRecognizedFields ==
    (gemini_response.kind # "none" /\ arg_current_profile.t = "dict") =>
        DOMAIN extract_result.val.v \subseteq DOMAIN arg_current_profile.v \cup PROFILE_FIELDS

\* the record each text with a record in it holds, read off the text
RecordOf(response_text) ==
    CASE response_text = text_age_state -> [age |-> IntV(25), state |-> Str(txt_Kerala)]
      [] response_text = text_occupation ->
             [age |-> IntV(0), state |-> EmptyStr, occupation |-> Str(txt_farmer)]
      [] response_text = text_fenced_object -> [category |-> Str(txt_SC)]
      [] response_text = text_null_age ->
             [age |-> None, state |-> Str(txt_Kerala), land_holding |-> IntV(0)]
      [] response_text = text_extra_field ->
             [name |-> Str(<<"R", "a", "v", "i">>), age |-> IntV(25)]
      [] OTHER -> <<>>

\* the record of the latest response, empty when extraction failed
Extracted ==
    IF gemini_response.kind = "text" /\ gemini_response.text \in ParseableTexts
    THEN RecordOf(gemini_response.text) ELSE <<>>

\* the response gives the field a value that is not zero, empty or null
Mentioned(key) ==
    /\ key \in DOMAIN Extracted
    /\ Extracted[key] \notin {IntV(0), EmptyStr, None}

\* C21: after a call on a profile record every prior field is still there,
\* a field the response gives a non-zero, non-empty value has that value,
\* every other field has its prior value, no other field appears, and the
\* record passed in is as it was.
C21_ExtractionMerge ==
    (gemini_response.kind # "none" /\ arg_current_profile.t = "dict") =>
        /\ extract_result.exc = ""
        /\ extract_result.val.t = "dict"
        /\ DOMAIN arg_current_profile.v \subseteq DOMAIN extract_result.val.v
        /\ \A key \in DOMAIN extract_result.val.v :
               IF Mentioned(key) THEN extract_result.val.v[key] = Extracted[key]
               ELSE /\ key \in DOMAIN arg_current_profile.v
                    /\ extract_result.val.v[key] = arg_current_profile.v[key]
        /\ \A key \in DOMAIN Extracted : Mentioned(key) => key \in DOMAIN extract_result.val.v
        /\ current_profile_after = arg_current_profile

\* a student of age 20 in Maharashtra and a response with age 0, an empty
\* state and occupation farmer: only the occupation changes
C21_Witness ==
    /\ gemini_response = [kind |-> "text", text |-> text_occupation]
    /\ arg_current_profile = profile_student
    /\ extract_result.val.v.age = IntV(20)
    /\ extract_result.val.v.state = Str(txt_Maharashtra)
    /\ extract_result.val.v.occupation = Str(txt_farmer)
    /\ current_profile_after = profile_student

(***************************************************************************)
(* Properties of catalog loading (SpecLoad)                                *)
(***************************************************************************)
\* the latest call was given no file, or a file whose top-level value is
\* not an array
LoadFailure ==
    /\ load_latest.made
    /\ \/ load_latest.source = MissingSource
       \/ load_latest.source.exists /\ load_latest.source.text \in NonListSourceTexts

\* C22: loading a missing source, or one whose top-level value is not a
\* list, returns the empty list, reports an error and raises nothing.
C22_LoadFailureIsEmpty ==
    LoadFailure =>
        /\ load_latest.returned.exc = ""
        /\ load_latest.returned.val = List(<<>>)
        /\ load_latest.returned.errors >= 1

\* C23: the loader of ui/pages.py returns, for records wrapped one level
\* deeper in lists, the list it returns for the same records in one flat
\* list.
C23_FlatteningIdempotent ==
    \A records \in RecordLists :
        (/\ load_previous.made /\ load_previous.loader = "pages"
         /\ load_latest.loader = "pages"
         /\ load_previous.source = [exists |-> TRUE, text |-> flat_source(records)]
         /\ load_latest.source.exists
         /\ load_latest.source.text \in wrapped_sources(records))
        => load_latest.returned = load_previous.returned

\* two records flat, then each in an inner list of its own: both calls
\* return the two records in the order PMK, MSS
C23_Witness ==
    /\ load_previous.made /\ load_previous.loader = "pages" /\ load_latest.loader = "pages"
    /\ load_previous.source = [exists |-> TRUE, text |-> flat_source(<<record_PMK, record_MSS>>)]
    /\ load_latest.source =
           [exists |-> TRUE, text |-> array_text(<<array_text(<<record_PMK>>), array_text(<<record_MSS>>)>>)]
    /\ Len(load_latest.returned.val.v) = 2
    /\ load_latest.returned.val.v[1].v.scheme_name = Str(name_PMK)
    /\ load_latest.returned.val.v[2].v.scheme_name = Str(name_MSS)

(***************************************************************************)
(* Properties of the scoring function on falsy fields (SpecFalsy)          *)
(***************************************************************************)
\* C24: a field present with the value "", 0 or None gives the score and
\* the reasons of the same profile without the field, and no exception.
C24_FalsyIsUnknown ==
    Scored =>
        \A field \in RuleFields :
            (field \in DOMAIN arg_user_profile.v /\ arg_user_profile.v[field] \in FalsyValues) =>
                /\ scored.exc = ""
                /\ scored = _calculate_simple_score(without_field(arg_user_profile, field), arg_scheme)

(***************************************************************************)
(* Properties of the results of the rule-based matcher (Spec)              *)
(***************************************************************************)
\* the reasons the table gives for a scheme and the profile of the call
TableReasons(s) ==
    (IF TableState(arg_user_profile, s) /\ FieldText(arg_user_profile, "state") # <<>>
     THEN <<"State eligibility matched">> ELSE <<>>)
    \o TableOtherReasons(arg_user_profile, s)

C29_ResultsMatchProfile ==
    ss_last_eligible_schemes # <<>> => matched_profile = ss_user_profile

\* C30: the chat history has even length and alternates user, assistant:
\* every turn has appended the user's message and one answer.
C30_HistoryAlternates ==
    /\ Len(ss_chat_history) % 2 = 0
    /\ \A i \in 1..Len(ss_chat_history) :
           ss_chat_history[i].role = IF i % 2 = 1 THEN "user" ELSE "assistant"

\* a turn that found schemes followed by a turn in which showing them raised
C30_Witness ==
    /\ Len(ss_chat_history) = 4
    /\ ss_chat_history[2].content = "found"
    /\ ss_chat_history[4].content = "error"

====
